---- MODULE Spec2Model ----
(***************************************************************************)
(* LaundryOps customer bot: the booking conversation state machine of      *)
(* app/services/chatbot_service.py, the pricing / outlet assignment /      *)
(* order creation of app/services/booking_service.py, and the intent       *)
(* router in front of them.                                                *)
(*                                                                         *)
(* Representation.                                                         *)
(*   - Message texts are strings; a character is SubSeq(s, i, i).          *)
(*   - A weight is an integer number of hundredths of a kilogram           *)
(*     (the code rounds every stored weight to 2 decimals).                *)
(*   - A catalog rate is an integer number of paise per kilogram, a price  *)
(*     an integer number of paise; weight x rate is kept in 1/10000 rupee  *)
(*     until the code rounds it.  round(x, 2) is modelled on the exact     *)
(*     decimal value (ties to even), i.e. without binary floating error.   *)
(*   - A session is a function from field names to values, as the Python   *)
(*     dict it models: a field the code has not set is not in its DOMAIN.  *)
(***************************************************************************)
EXTENDS Integers, Sequences, FiniteSets, TLC

(***************************************************************************)
(* Strings                                                                 *)
(***************************************************************************)
Char(s, i) == SubSeq(s, i, i)

UpperChars == <<"A", "B", "C", "D", "E", "F", "G", "H", "I", "J", "K", "L", "M",
                "N", "O", "P", "Q", "R", "S", "T", "U", "V", "W", "X", "Y", "Z">>

LowerChars == <<"a", "b", "c", "d", "e", "f", "g", "h", "i", "j", "k", "l", "m",
                "n", "o", "p", "q", "r", "s", "t", "u", "v", "w", "x", "y", "z">>

DigitChars == <<"0", "1", "2", "3", "4", "5", "6", "7", "8", "9">>

LowerChar(ch) ==
    IF \E i \in 1..26 : UpperChars[i] = ch
    THEN LowerChars[CHOOSE i \in 1..26 : UpperChars[i] = ch]
    ELSE ch

UpperChar(ch) ==
    IF \E i \in 1..26 : LowerChars[i] = ch
    THEN UpperChars[CHOOSE i \in 1..26 : LowerChars[i] = ch]
    ELSE ch

RECURSIVE Lower(_)
\* str.lower()
Lower(s) ==
    IF s = "" THEN "" ELSE LowerChar(Char(s, 1)) \o Lower(SubSeq(s, 2, Len(s)))

RECURSIVE Upper(_)
\* str.upper()
Upper(s) ==
    IF s = "" THEN "" ELSE UpperChar(Char(s, 1)) \o Upper(SubSeq(s, 2, Len(s)))

RECURSIVE LStrip(_)
LStrip(s) ==
    IF s # "" /\ Char(s, 1) = " " THEN LStrip(SubSeq(s, 2, Len(s))) ELSE s

RECURSIVE RStrip(_)
RStrip(s) ==
    IF s # "" /\ Char(s, Len(s)) = " " THEN RStrip(SubSeq(s, 1, Len(s) - 1)) ELSE s

\* str.strip()
Strip(s) == RStrip(LStrip(s))

\* Python's "sub in s"
Contains(sub, s) ==
    \E i \in 1..(Len(s) - Len(sub) + 1) : SubSeq(s, i, i + Len(sub) - 1) = sub

\* any(k in s for k in keys)
ContainsAny(keys, s) == \E k \in keys : Contains(k, s)

\* s.startswith(p)
StartsWith(s, p) == Len(s) >= Len(p) /\ SubSeq(s, 1, Len(p)) = p

RECURSIVE ReplaceChar(_, _, _)
\* str.replace(a, b) for one-character a, b
ReplaceChar(s, a, b) ==
    IF s = "" THEN ""
    ELSE (IF Char(s, 1) = a THEN b ELSE Char(s, 1)) \o ReplaceChar(SubSeq(s, 2, Len(s)), a, b)

RECURSIVE RStripChars(_, _)
\* str.rstrip(chars)
RStripChars(s, chars) ==
    IF s # "" /\ Char(s, Len(s)) \in chars
    THEN RStripChars(SubSeq(s, 1, Len(s) - 1), chars)
    ELSE s

IsDigit(ch) == \E i \in 1..10 : DigitChars[i] = ch

DigitVal(ch) == (CHOOSE i \in 1..10 : DigitChars[i] = ch) - 1

AllDigits(s) == s # "" /\ \A i \in 1..Len(s) : IsDigit(Char(s, i))

RECURSIVE ToInt(_)
\* int(s) for a string of digits
ToInt(s) ==
    IF s = "" THEN 0 ELSE 10 * ToInt(SubSeq(s, 1, Len(s) - 1)) + DigitVal(Char(s, Len(s)))

RECURSIVE DigitsOf(_)
\* "".join(c for c in s if c.isdigit())
DigitsOf(s) ==
    IF s = "" THEN ""
    ELSE (IF IsDigit(Char(s, 1)) THEN Char(s, 1) ELSE "") \o DigitsOf(SubSeq(s, 2, Len(s)))

\* Index of the last character of the run of digits that starts at i
RECURSIVE RunEnd(_, _)
RunEnd(s, i) ==
    IF i < Len(s) /\ IsDigit(Char(s, i + 1)) THEN RunEnd(s, i + 1) ELSE i

\* Index of the first character at or after i that is not a space (Len(s)+1 if none)
RECURSIVE SkipSpaces(_, _)
SkipSpaces(s, i) ==
    IF i <= Len(s) /\ Char(s, i) = " " THEN SkipSpaces(s, i + 1) ELSE i

\* Start positions of the maximal runs of digits of s
RunStarts(s) ==
    { i \in 1..Len(s) : IsDigit(Char(s, i)) /\ (i = 1 \/ ~IsDigit(Char(s, i - 1))) }

Min(S) == CHOOSE x \in S : \A y \in S : x <= y

Max2(a, b) == IF a >= b THEN a ELSE b

Min2(a, b) == IF a <= b THEN a ELSE b

\* round(n / d) to the nearest integer, ties to even (n >= 0, d > 0)
RoundDiv(n, d) ==
    LET q == n \div d
        r == n % d
    IN  IF 2 * r < d THEN q
        ELSE IF 2 * r > d THEN q + 1
        ELSE IF q % 2 = 0 THEN q ELSE q + 1

(***************************************************************************)
(* Optional values: None is the empty sequence, a value v is <<v>>.        *)
(***************************************************************************)
None == <<>>

Some(v) == <<v>>

IsNone(o) == o = <<>>

Val(o) == o[1]

(***************************************************************************)
(* Weight / quantity parsers (chatbot_service.py)                          *)
(***************************************************************************)
\* _WEIGHT_PER_SHIRT = 0.2 kg, in hundredths of a kilogram
WEIGHT_PER_SHIRT == 20

WEIGHT_PER_PANT == 25

WEIGHT_PER_PIECE == 20

WEIGHT_PER_SHOE_PAIR == 50

WEIGHT_PER_IRON_PIECE == 20

\* The range 0.5 <= w <= 100 the code tests weights against, in hundredths
MIN_WEIGHT == 50

MAX_WEIGHT == 10000

\* A decimal literal: digits, at most one ".", at least one digit, optional "+".
\* (float() also reads exponents, "inf", "nan" and "_"; no input of the model
\* has them.)
IsDecimal(s) ==
    LET u == IF s # "" /\ Char(s, 1) = "+" THEN SubSeq(s, 2, Len(s)) ELSE s
        dots == { i \in 1..Len(u) : Char(u, i) = "." }
    IN  /\ u # ""
        /\ \A i \in 1..Len(u) : IsDigit(Char(u, i)) \/ Char(u, i) = "."
        /\ Cardinality(dots) <= 1
        /\ \E i \in 1..Len(u) : IsDigit(Char(u, i))

\* The value of a decimal literal in 1/10000 (digits after the fourth decimal
\* are dropped)
DecimalE4(s) ==
    LET u == IF s # "" /\ Char(s, 1) = "+" THEN SubSeq(s, 2, Len(s)) ELSE s
        dots == { i \in 1..Len(u) : Char(u, i) = "." }
        d == IF dots = {} THEN Len(u) + 1 ELSE Min(dots)
        ip == SubSeq(u, 1, d - 1)
        fp == SubSeq(SubSeq(u, d + 1, Len(u)) \o "0000", 1, 4)
    IN  10000 * ToInt(ip) + ToInt(fp)

\* Seeded fault: the fraction of the literal is dropped
ParseFloatTruncated(s) ==
    IF IsDecimal(s) THEN Some(10000 * (DecimalE4(s) \div 10000)) ELSE None

\* float(s) as Optional value in 1/10000; None models ValueError
ParseFloat(s) == IF IsDecimal(s) THEN Some(DecimalE4(s)) ELSE None

\* re.search(r"(\d+)\s*<word>", s): the leftmost run of digits followed by
\* optional spaces and word; Optional int
CountBefore(s, word) ==
    LET hits == { i \in RunStarts(s) :
                    LET k == SkipSpaces(s, RunEnd(s, i) + 1)
                    IN  /\ k + Len(word) - 1 <= Len(s)
                        /\ SubSeq(s, k, k + Len(word) - 1) = word }
    IN  IF hits = {} THEN None
        ELSE Some(ToInt(SubSeq(s, Min(hits), RunEnd(s, Min(hits)))))

\* plural suffix of the notes: f"{n} shirt{'s' if n != 1 else ''}"
RECURSIVE IntToStr(_)
IntToStr(n) ==
    IF n < 10 THEN DigitChars[n + 1] ELSE IntToStr(n \div 10) \o DigitChars[(n % 10) + 1]

Plural(n, word) == IntToStr(n) \o " " \o word \o (IF n # 1 THEN "s" ELSE "")

RECURSIVE JoinComma(_)
\* ", ".join(parts)
JoinComma(parts) ==
    IF parts = <<>> THEN ""
    ELSE IF Len(parts) = 1 THEN parts[1]
    ELSE parts[1] \o ", " \o JoinComma(Tail(parts))

\* A parse result (weight_kg, weight_note): kg in hundredths, both Optional
\* Seeded fault: a failed parse yields the smallest weight
ParseFailAsMinimum == [kg |-> Some(MIN_WEIGHT), note |-> None]

ParseFail == [kg |-> None, note |-> None]

\* _parse_weight_from_message(raw)
ParseWeightFromMessage(raw) ==
    LET raw_clean == ReplaceChar(Lower(Strip(raw)), ",", " ")
        w == ParseFloat(Strip(ReplaceChar(raw, ",", ".")))
        m_shirts == CountBefore(raw_clean, "shirt")
        m_pants == CountBefore(raw_clean, "pant")
        m_pieces == CountBefore(raw_clean, "piece")
        m_clothes == CountBefore(raw_clean, "clothe")
        shirts == IF IsNone(m_shirts) THEN 0 ELSE Val(m_shirts)
        pants == IF IsNone(m_pants) THEN 0 ELSE Val(m_pants)
        pieces_generic ==
            IF ~IsNone(m_clothes) THEN Val(m_clothes)
            ELSE IF ~IsNone(m_pieces) THEN Val(m_pieces) ELSE 0
        \* (lines 165-174 re-scan only when all three counts are 0; any match
        \* they find was already found above with count 0, so they set nothing)
        total_kg == shirts * WEIGHT_PER_SHIRT + pants * WEIGHT_PER_PANT
                    + pieces_generic * WEIGHT_PER_PIECE
        parts == (IF shirts # 0 THEN <<Plural(shirts, "shirt")>> ELSE <<>>)
                 \o (IF pants # 0 THEN <<Plural(pants, "pant")>> ELSE <<>>)
                 \o (IF pieces_generic # 0 THEN <<Plural(pieces_generic, "piece")>> ELSE <<>>)
    IN  IF ~IsNone(w) /\ 100 * MIN_WEIGHT <= Val(w) /\ Val(w) <= 100 * MAX_WEIGHT
        THEN [kg |-> Some(RoundDiv(Val(w), 100)), note |-> None]
        ELSE IF total_kg < MIN_WEIGHT THEN ParseFail
        ELSE [kg |-> Some(Min2(MAX_WEIGHT, total_kg)),
              note |-> IF parts # <<>> THEN Some(JoinComma(parts)) ELSE None]

\* _parse_quantity(raw, min_val, max_val): Optional int
ParseQuantity(raw, min_val, max_val) ==
    LET s == Strip(raw)
        starts == RunStarts(s)
        n == ToInt(SubSeq(s, Min(starts), RunEnd(s, Min(starts))))
    IN  IF s = "" \/ starts = {} THEN None
        ELSE IF min_val <= n /\ n <= max_val THEN Some(n) ELSE None

\* Per-item weights of _parse_home_textiles_weight, in hundredths of a kilogram
KG_PER_BEDSHEET == 100

KG_PER_CARPET == 300

KG_PER_CURTAIN == 50

\* The bounds 1 <= n <= 100 on an item count
MAX_ITEMS == 100

RECURSIVE StripTrailingZeros(_)
StripTrailingZeros(s) ==
    IF s # "" /\ Char(s, Len(s)) = "0" THEN StripTrailingZeros(SubSeq(s, 1, Len(s) - 1)) ELSE s

\* str(float(numeral)) for a numeral \d+(\.\d+)?
FloatRepr(numeral) ==
    LET dots == { i \in 1..Len(numeral) : Char(numeral, i) = "." }
        d == IF dots = {} THEN Len(numeral) + 1 ELSE Min(dots)
        fp == StripTrailingZeros(SubSeq(numeral, d + 1, Len(numeral)))
    IN  IntToStr(ToInt(SubSeq(numeral, 1, d - 1))) \o "." \o (IF fp = "" THEN "0" ELSE fp)

\* re.search(r"^(\d+(?:\.\d+)?)\s*kg?$", s): the numeral matched, Optional
KgNumeral(s) ==
    LET e == IF s # "" /\ IsDigit(Char(s, 1)) THEN RunEnd(s, 1) ELSE 0
        f == IF e > 0 /\ e + 1 < Len(s) /\ Char(s, e + 1) = "." /\ IsDigit(Char(s, e + 2))
             THEN RunEnd(s, e + 2) ELSE e
        k == SkipSpaces(s, f + 1)
        rest == SubSeq(s, k, Len(s))
    IN  IF e > 0 /\ rest \in {"k", "kg"} THEN Some(SubSeq(s, 1, f)) ELSE None

\* One pattern of the loop of lines 237-251: Optional parse result
TextilePattern(s, word, label, kg_each) ==
    LET m == CountBefore(s, word)
    IN  IF ~IsNone(m) /\ 1 <= Val(m) /\ Val(m) <= MAX_ITEMS
        THEN Some([kg |-> Some(Max2(MIN_WEIGHT, Val(m) * kg_each)),
                   note |-> Some(Plural(Val(m), label))])
        ELSE None

\* _parse_home_textiles_weight(raw, textile_type)
ParseHomeTextilesWeight(raw, textile_type) ==
    LET s == Lower(Strip(raw))
        m1 == KgNumeral(s)
        w == IF IsNone(m1) THEN 0 ELSE DecimalE4(Val(m1))
        n == ToInt(s)
        p1 == TextilePattern(s, "bedsheet", "bedsheet", KG_PER_BEDSHEET)
        p2 == TextilePattern(s, "carpet", "carpet", KG_PER_CARPET)
        p3 == TextilePattern(s, "curtain", "curtain", KG_PER_CURTAIN)
    IN  IF ~IsNone(m1) /\ 100 * MIN_WEIGHT <= w /\ w <= 100 * MAX_WEIGHT
        THEN [kg |-> Some(RoundDiv(w, 100)), note |-> Some(FloatRepr(Val(m1)) \o " kg")]
        ELSE IF AllDigits(s)
        THEN IF n < 1 \/ n > MAX_ITEMS THEN ParseFail
             ELSE IF textile_type = "bedsheet"
             THEN [kg |-> Some(n * KG_PER_BEDSHEET), note |-> Some(Plural(n, "bedsheet"))]
             ELSE IF textile_type = "carpet"
             THEN [kg |-> Some(n * KG_PER_CARPET), note |-> Some(Plural(n, "carpet"))]
             ELSE IF textile_type = "curtains"
             THEN [kg |-> Some(n * KG_PER_CURTAIN), note |-> Some(Plural(n, "curtain"))]
             ELSE [kg |-> Some(n * KG_PER_BEDSHEET), note |-> Some(Plural(n, "item"))]
        ELSE IF ~IsNone(p1) THEN Val(p1)
        ELSE IF ~IsNone(p2) THEN Val(p2)
        ELSE IF ~IsNone(p3) THEN Val(p3)
        ELSE ParseFail

(***************************************************************************)
(* State                                                                   *)
(***************************************************************************)
VARIABLES
    booking_state,   \* _booking_state: chat_id -> session dict (DOMAIN = chats with a session)
    memory,          \* _conversation_buffer: chat_id -> number of buffered messages
    services,        \* table services: service_name -> base_price (paise per kg)
    outlets,         \* table outlets: rows [id, outlet_name, is_active]
    pune_areas,      \* table pune_areas: rows [area_name, outlet_id]
    customers,       \* table customers: rows; a row's id is its index
    orders,          \* table orders: rows; a row's id is its index
    order_items,     \* table order_items: rows [order_id, service_id, price]
    order_status_logs, \* table order_status_logs: rows [order_id, status]
    feedback,        \* table feedback: rows [order_id, rating]
    last,            \* history: the last turn, [chat, raw, fault, branch, step, reply]
    shown,           \* history: chat_id -> the estimate shown in the chat's current session
    inflight         \* webhook requests: [chat, text, pc, seen, found, order_id] per request

vars == <<booking_state, memory, services, outlets, pune_areas, customers, orders,
          order_items, order_status_logs, feedback, last, shown, inflight>>

tables == <<customers, orders, order_items, order_status_logs, feedback>>

refdata == <<services, outlets, pune_areas>>

\* dict.get(k, default)
Get(d, k, default) == IF k \in DOMAIN d THEN d[k] ELSE default

\* d[k] = v
Put(d, k, v) == [x \in DOMAIN d \cup {k} |-> IF x = k THEN v ELSE d[x]]

\* _booking_state.pop(chat_id, None)
Pop(bs, chat_id) == [c \in DOMAIN bs \ {chat_id} |-> bs[c]]

(***************************************************************************)
(* Pricing (booking_service.py)                                            *)
(***************************************************************************)
DEFAULT_SERVICES == <<"wash">>

SERVICE_MAP ==
    [wash_only |-> <<"wash">>,
     wash_iron |-> <<"wash", "iron">>,
     dry_clean |-> <<"dry_clean">>,
     shoe_clean |-> <<"shoe_clean">>,
     home_textiles |-> <<"home_textiles">>,
     premium_iron |-> <<"premium_iron">>,
     press_iron |-> <<"press_iron">>,
     steam_iron |-> <<"steam_iron">>]

\* SERVICE_MAP.get((service_choice or "").strip().lower(), ["wash"])
ServiceNames(service_choice) ==
    Get(SERVICE_MAP, Lower(Strip(service_choice)), DEFAULT_SERVICES)

RECURSIVE GetServiceIds(_, _)
\* _get_service_ids(supabase, service_names): rows <<id, price_per_kg>>
GetServiceIds(catalog, service_names) ==
    IF service_names = <<>> THEN <<>>
    ELSE (IF Head(service_names) \in DOMAIN catalog
          THEN << <<Head(service_names), catalog[Head(service_names)]>> >>
          ELSE <<>>)
         \o GetServiceIds(catalog, Tail(service_names))

RECURSIVE SumRates(_)
\* sum(rate for _, rate in service_rows)
SumRates(rows) == IF rows = <<>> THEN 0 ELSE Head(rows)[2] + SumRates(Tail(rows))

\* max(0.5, min(100.0, float(weight_kg or 1.0))), in hundredths of a kilogram
ClampWeight(weight_kg) ==
    Max2(MIN_WEIGHT, Min2(MAX_WEIGHT, IF weight_kg = 0 THEN 100 ELSE weight_kg))

\* (delivery_type or "").strip().lower() in ("express", "1", "2")
IsExpress(delivery_type) == Lower(Strip(delivery_type)) \in {"express", "1", "2"}

\* The rows estimate_price prices (lines 197-200)
EstimateRows(catalog, service_choice) ==
    LET service_rows == GetServiceIds(catalog, ServiceNames(service_choice))
    IN  IF service_rows = <<>> THEN GetServiceIds(catalog, DEFAULT_SERVICES) ELSE service_rows

\* Seeded fault: the estimate forgets the express surcharge
EstimatePriceWithoutSurcharge(catalog, service_choice, weight_kg, delivery_type, db_ok) ==
    LET total == ClampWeight(weight_kg) * SumRates(EstimateRows(catalog, service_choice))
    IN  IF ~db_ok THEN None ELSE Some(RoundDiv(total, 100))

\* estimate_price(service_choice, weight_kg, delivery_type): Optional paise.
\* db_ok = FALSE: a call to the store raises, which the function turns into None.
EstimatePrice(catalog, service_choice, weight_kg, delivery_type, db_ok) ==
    LET total == ClampWeight(weight_kg) * SumRates(EstimateRows(catalog, service_choice))
        surcharge == IF IsExpress(delivery_type) THEN 100 * RoundDiv(3 * total, 1000) ELSE 0
    IN  IF ~db_ok THEN None ELSE Some(RoundDiv(total + surcharge, 100))

(***************************************************************************)
(* Outlet assignment (booking_service.py)                                  *)
(***************************************************************************)
\* Indexes of the rows of a table (a sequence) that satisfy a test
FirstIndex(S) == IF S = {} THEN 0 ELSE Min(S)

ActiveOutlets(outs) == { i \in 1..Len(outs) : outs[i].is_active }

\* select ... from outlets where id = outlet_id limit 1: row index, 0 if none
OutletIndex(outs, outlet_id) == FirstIndex({ i \in 1..Len(outs) : outs[i].id = outlet_id })

\* Seeded fault: the first outlet is returned whether it is active or not
AssignFirstOutlet(outs) == IF outs = <<>> THEN None ELSE Some(outs[1].id)

\* _assign_outlet(supabase): Optional outlet id; None models
\* ValueError("No active outlets found")
AssignOutlet(outs) ==
    IF ActiveOutlets(outs) = {} THEN None ELSE Some(outs[Min(ActiveOutlets(outs))].id)

\* The rows of pune_areas whose area name is in the address (line 161)
MatchingAreas(areas, address_lower) ==
    { i \in 1..Len(areas) :
        LET area_name == Lower(Strip(areas[i].area_name))
        IN  area_name # "" /\ areas[i].outlet_id # "" /\ Contains(area_name, address_lower) }

\* _assign_outlet_by_address(supabase, address): [outlet_id: Optional, note: Optional];
\* outlet_id = None models the ValueError of _assign_outlet.
\* db_ok = FALSE: reading pune_areas raises, which line 175 swallows.
AssignOutletByAddress(outs, areas, address, db_ok) ==
    LET address_lower == Lower(Strip(address))
        hits == MatchingAreas(areas, address_lower)
        row == areas[Min(hits)]
        oi == OutletIndex(outs, row.outlet_id)
        maintenance_outlet_name ==
            IF oi # 0 /\ outs[oi].outlet_name # "" THEN outs[oi].outlet_name
            ELSE "Your nearest outlet"
        fallback_id == AssignOutlet(outs)
        fallback_name == outs[OutletIndex(outs, Val(fallback_id))].outlet_name
    IN  IF Strip(address) = "" \/ ~db_ok \/ hits = {}
        THEN [outlet_id |-> AssignOutlet(outs), note |-> None]
        ELSE IF oi # 0 /\ outs[oi].is_active
        THEN [outlet_id |-> Some(row.outlet_id), note |-> None]
        ELSE IF IsNone(fallback_id)
        THEN [outlet_id |-> None, note |-> None]
        ELSE [outlet_id |-> fallback_id,
              note |-> Some("That outlet (" \o maintenance_outlet_name
                            \o ") is currently on maintenance. We've assigned your order to "
                            \o fallback_name \o " instead.")]

(***************************************************************************)
(* Order creation (booking_service.py)                                     *)
(***************************************************************************)
\* uuid4().hex values handed out by _next_order_number, one per order
UuidHex == <<"678d45bc9f0e4c1a", "1234abcd00ff5e6d", "0badc0de77aa4b2c", "feedface01234567">>

\* _next_order_number(), for the k-th order of the table
NextOrderNumber(k) == "ORD-" \o Upper(SubSeq(UuidHex[((k - 1) % Len(UuidHex)) + 1], 1, 8))

\* "".join(c for c in phone if c.isdigit()).strip() or phone.strip(); "tg-<chat>" if empty
PhoneClean(telegram_chat_id, phone) ==
    LET digits == Strip(DigitsOf(phone))
        p == IF digits # "" THEN digits ELSE Strip(phone)
    IN  IF p # "" THEN p ELSE "tg-" \o telegram_chat_id

\* Seeded fault: the customer is looked up by chat id only
FindCustomerByChat(custs, phone_clean, telegram_chat_id) ==
    FirstIndex({ i \in 1..Len(custs) : custs[i].telegram_chat_id = telegram_chat_id })

\* Lines 251-265: the customer found by phone, else by chat id; 0 if none
FindCustomer(custs, phone_clean, telegram_chat_id) ==
    LET by_phone == { i \in 1..Len(custs) : custs[i].phone_number = phone_clean }
        by_chat == { i \in 1..Len(custs) : custs[i].telegram_chat_id = telegram_chat_id }
    IN  IF by_phone # {} THEN Min(by_phone) ELSE FirstIndex(by_chat)

\* Seeded fault: a customer found keeps the name and the address it had
UpsertFoundKeepingProfile(custs, found, telegram_chat_id, full_name, address, phone_clean) ==
    IF found # 0
    THEN [custs EXCEPT ![found].telegram_chat_id = telegram_chat_id]
    ELSE Append(custs,
                [full_name |-> Strip(full_name),
                 phone_number |-> phone_clean,
                 customer_type |-> "professional",
                 address |-> address,
                 telegram_chat_id |-> telegram_chat_id,
                 total_orders |-> 0])

\* Lines 267-284: update the customer found (found # 0), or insert a new one.
\* (The lookup selects only "id", so the name falls back to NULL, here "".)
UpsertFound(custs, found, telegram_chat_id, full_name, address, phone_clean) ==
    IF found # 0
    THEN [custs EXCEPT ![found].full_name = Strip(full_name),
                       ![found].telegram_chat_id = telegram_chat_id,
                       ![found].address = address]
    ELSE Append(custs,
                [full_name |-> IF Strip(full_name) # "" THEN Strip(full_name)
                               ELSE "Customer " \o SubSeq(phone_clean, Max2(1, Len(phone_clean) - 3),
                                                          Len(phone_clean)),
                 phone_number |-> phone_clean,
                 customer_type |-> "professional",
                 address |-> address,
                 telegram_chat_id |-> telegram_chat_id,
                 total_orders |-> 0])

\* Lines 251-284: the lookup, then the update or the insert
UpsertCustomer(custs, telegram_chat_id, full_name, address, phone_clean) ==
    UpsertFound(custs, FindCustomer(custs, phone_clean, telegram_chat_id), telegram_chat_id,
                full_name, address, phone_clean)

\* The rows create_booking prices (lines 310-313)
BookingRows(catalog, service_choice) ==
    LET service_rows == GetServiceIds(catalog, ServiceNames(service_choice))
    IN  IF service_rows = <<>> THEN GetServiceIds(catalog, DEFAULT_SERVICES) ELSE service_rows

\* Seeded fault: the express fee is recorded but not added to the total
BookingTotalsFeeNotAdded(catalog, service_choice, weight_kg, delivery_type) ==
    LET total_price == ClampWeight(weight_kg) * SumRates(BookingRows(catalog, service_choice))
        express_fee == IF IsExpress(delivery_type) THEN RoundDiv(3 * total_price, 1000) ELSE 0
    IN  [total_price |-> RoundDiv(total_price, 100), express_fee |-> express_fee]

\* Lines 316-320, 340-341: [total_price, express_fee] in paise, as persisted
BookingTotals(catalog, service_choice, weight_kg, delivery_type) ==
    LET total_price == ClampWeight(weight_kg) * SumRates(BookingRows(catalog, service_choice))
        express_fee == IF IsExpress(delivery_type) THEN RoundDiv(3 * total_price, 1000) ELSE 0
    IN  [total_price |-> RoundDiv(total_price + 100 * express_fee, 100),
         express_fee |-> express_fee]

\* (x or "").strip() or None, for a string
StrOrNone(x) == IF Strip(x) = "" THEN None ELSE Some(Strip(x))

\* (x or "").strip() or None, for an Optional string
OptOrNone(o) == IF IsNone(o) THEN None ELSE StrOrNone(Val(o))

\* How the store behaves during one turn:
\*   none        every call succeeds
\*   db_down     every call raises (get_supabase() or the network fails)
\*   areas_down  reading pune_areas raises, the rest succeeds
\*   setup       the customers query raises "column telegram_chat_id does not exist"
\*   items_fail  inserting into order_items raises, the rest succeeds
Faults == {"none", "db_down", "areas_down", "setup", "items_fail"}

\* The tables create_booking writes
Tables(custs, ords, items, logs) ==
    [customers |-> custs, orders |-> ords, order_items |-> items, order_status_logs |-> logs]

\* Lines 371-378: one order_items row per priced service
RECURSIVE ItemRows(_, _, _)
ItemRows(order_id, service_rows, weight_kg) ==
    IF service_rows = <<>> THEN <<>>
    ELSE << [order_id |-> order_id, service_id |-> Head(service_rows)[1], quantity |-> 1,
             price |-> RoundDiv(Head(service_rows)[2] * weight_kg, 100)] >>
         \o ItemRows(order_id, Tail(service_rows), weight_kg)

\* Lines 322-359: the row inserted into orders
OrderRow(order_number, customer_id, outlet_id, a) ==
    LET is_express == IsExpress(a.delivery_type)
        totals == BookingTotals(services, a.service_choice, a.weight_kg, a.delivery_type)
        pt == IF Lower(Strip(a.pickup_type)) \in {"self_drop", "home_pickup"}
              THEN Lower(Strip(a.pickup_type)) ELSE "self_drop"
    IN  [order_number |-> order_number,
         customer_id |-> customer_id,
         outlet_id |-> outlet_id,
         priority_type |-> IF is_express THEN "express" ELSE "normal",
         status |-> "Received",
         total_price |-> totals.total_price,
         express_fee |-> totals.express_fee,
         payment_status |-> Get([cod |-> "Cash on delivery", upi |-> "UPI", online |-> "Online"],
                                Lower(Strip(a.payment_method)), "Cash on delivery"),
         delivery_hours |-> IF is_express THEN 24 ELSE 48,
         pickup_type |-> pt,
         pickup_address |-> StrOrNone(a.pickup_address),
         delivery_address |-> StrOrNone(a.delivery_address),
         total_weight_kg |-> ClampWeight(a.weight_kg),
         customer_instructions |-> StrOrNone(a.customer_instructions),
         weight_note |-> OptOrNone(a.weight_note),
         preferred_pickup_at |-> OptOrNone(a.preferred_pickup_at),
         preferred_delivery_at |-> OptOrNone(a.preferred_delivery_at)]

\* create_booking(telegram_chat_id, **a) under a fault: [db, result].
\* result.error is "" on success, "setup" / "no_outlets" for the two error dicts the
\* function returns, and "exception" when it raises.
CreateBooking(telegram_chat_id, a, fault) ==
    LET before == Tables(customers, orders, order_items, order_status_logs)
        phone_clean == PhoneClean(telegram_chat_id, a.phone)
        found == FindCustomer(customers, phone_clean, telegram_chat_id)
        custs1 == UpsertCustomer(customers, telegram_chat_id, a.full_name, a.address, phone_clean)
        customer_id == IF found # 0 THEN found ELSE Len(custs1)
        assigned == AssignOutletByAddress(outlets, pune_areas, a.address, fault # "areas_down")
        order_id == Len(orders) + 1
        row == OrderRow(NextOrderNumber(order_id), customer_id, Val(assigned.outlet_id), a)
        ords1 == Append(orders, row)
        service_rows == BookingRows(services, a.service_choice)
        items1 == order_items \o ItemRows(order_id, service_rows, row.total_weight_kg)
        logs1 == Append(order_status_logs, [order_id |-> order_id, status |-> "Received"])
        custs2 == [custs1 EXCEPT ![customer_id].total_orders = @ + 1]
        failed(db, kind) == [db |-> db, result |-> [error |-> kind]]
    IN  IF fault = "db_down" THEN failed(before, "exception")
        ELSE IF fault = "setup" THEN failed(before, "setup")
        ELSE IF IsNone(assigned.outlet_id)
        THEN failed(Tables(custs1, orders, order_items, order_status_logs), "no_outlets")
        ELSE IF fault = "items_fail" /\ service_rows # <<>>
        THEN failed(Tables(custs1, ords1, order_items, order_status_logs), "exception")
        ELSE [db |-> Tables(custs2, ords1, items1, logs1),
              result |-> [error |-> "",
                          order_number |-> row.order_number,
                          expected_hours |-> row.delivery_hours,
                          order_id |-> order_id,
                          services |-> ServiceNames(a.service_choice),
                          weight_kg |-> row.total_weight_kg,
                          weight_note |-> row.weight_note,
                          total_price |-> row.total_price,
                          express_fee |-> row.express_fee,
                          is_existing |-> found # 0,
                          pickup_type |-> row.pickup_type,
                          is_express |-> IsExpress(a.delivery_type),
                          maintenance_note |-> assigned.note,
                          payment_method |-> Lower(Strip(a.payment_method))]]

(***************************************************************************)
(* Address check (booking_service.py)                                      *)
(***************************************************************************)
PUNE_AREAS_FALLBACK ==
    <<"pune", "viman nagar", "kothrud", "hinjewadi", "fc road", "camp", "aundh", "baner",
      "pimple saudagar", "wakad", "hadapsar", "kondhwa", "shivajinagar", "deccan",
      "karve road", "sinhagad road", "koregaon park", "mg road", "sb road", "jm road">>

\* _get_pune_area_names(supabase): the table's names, lower-cased; the built-in
\* list when the table is empty or cannot be read
GetPuneAreaNames(areas, db_ok) ==
    IF db_ok /\ areas # <<>>
    THEN { Lower(Strip(areas[i].area_name)) : i \in { j \in 1..Len(areas) : areas[j].area_name # "" } }
    ELSE { PUNE_AREAS_FALLBACK[i] : i \in 1..Len(PUNE_AREAS_FALLBACK) }

\* Seeded fault: no address is taken to be in Pune
IsPuneAddressNever(areas, address, db_ok) == FALSE

\* is_pune_address(address)
IsPuneAddress(areas, address, db_ok) ==
    LET raw == Lower(Strip(address))
    IN  /\ Strip(address) # ""
        /\ raw # "skip"
        /\ \/ Contains("pune", raw)
           \/ \E area \in GetPuneAreaNames(areas, db_ok) : area # "" /\ Contains(area, raw)

(***************************************************************************)
(* Intent classification (chatbot_service.py)                              *)
(***************************************************************************)
Greetings ==
    {"hi", "hello", "hey", "hii", "heyy", "helo", "hallo", "hi there", "hey there",
     "good morning", "good evening", "good afternoon", "gm", "ge", "ga",
     "namaste", "namaskar", "sup", "yo", "hola"}

Casual ==
    {"how are you", "how r u", "how ru", "what are you doing", "what do you do",
     "what can you do", "tell me about you", "who are you", "who r u",
     "kya kar rahe ho", "kaise ho", "aap kya karte ho", "help", "intro",
     "what is this", "what's this", "ye kya hai", "start", "begin"}

\* _is_greeting_or_casual(message)
IsGreetingOrCasual(message) ==
    LET m == Lower(Strip(message))
    IN  /\ m # ""
        /\ Len(m) <= 120
        /\ \/ m \in Greetings
           \/ RStripChars(m, {"!", "?", "."}) \in Greetings
           \/ ContainsAny(Casual, m)

ShowQuestionsPhrases ==
    {"what did i ask", "what did i say", "my questions", "show my questions",
     "my messages", "show my messages", "conversation history", "my history",
     "what questions did i ask", "list my questions", "maine kya pucha",
     "mera kya question tha", "jo maine pucha", "my recent questions"}

\* _is_show_my_questions_intent(message)
IsShowMyQuestionsIntent(message) ==
    LET m == Lower(Strip(message))
    IN  m # "" /\ Len(m) <= 80 /\ ContainsAny(ShowQuestionsPhrases, m)

OrderKeywords ==
    {"order", "my order", "my booking", "mera order", "kitna time", "kab milega",
     "details", "status", "kahan hai", "delivery", "time lagega", "lagenge",
     "track", "check", "batao", "bata", "tell me", "update", "about my"}

\* _is_order_related(message)
IsOrderRelated(message) == ContainsAny(OrderKeywords, message)

BookKeywords == {"book", "pickup", "schedule", "order lagana", "laundry bhejo"}

\* line 718
IsBookIntent(message) == ContainsAny(BookKeywords, message)

TrackKeywords == {"track", "status", "where is my order", "kahan hai"}

\* line 745
IsTrackIntent(message) == ContainsAny(TrackKeywords, message)

PricingKeywords ==
    {"price", "pricing", "cost", "fee", "support", "complaint", "policy", "faq", "rewash",
     "delivery time", "express"}

\* line 765
IsPricingIntent(message) == ContainsAny(PricingKeywords, message)

HexLower == {"0", "1", "2", "3", "4", "5", "6", "7", "8", "9", "a", "b", "c", "d", "e", "f"}

IsAlnum(ch) == IsDigit(ch) \/ (\E i \in 1..26 : LowerChars[i] = ch \/ UpperChars[i] = ch)

\* \w of the regular expressions
IsWordChar(ch) == IsAlnum(ch) \/ ch = "_"

\* Index of the last character of the run of alphanumerics that starts at i
RECURSIVE AlnumEnd(_, _)
AlnumEnd(s, i) ==
    IF i < Len(s) /\ IsAlnum(Char(s, i + 1)) THEN AlnumEnd(s, i + 1) ELSE i

\* re.search(r"ord-?([a-f0-9]{8})\b", s): the start g of the group at the leftmost
\* match, 0 if none
HexCodeAt(s, g) ==
    /\ g + 7 <= Len(s)
    /\ \A j \in g..(g + 7) : Char(s, j) \in HexLower
    /\ (g + 8 <= Len(s) => ~IsWordChar(Char(s, g + 8)))

HexCodeGroup(s) ==
    LET starts == { i \in 1..(Len(s) - 2) :
                      /\ SubSeq(s, i, i + 2) = "ord"
                      /\ \/ (i + 3 <= Len(s) /\ Char(s, i + 3) = "-" /\ HexCodeAt(s, i + 4))
                         \/ HexCodeAt(s, i + 3) }
        i0 == Min(starts)
    IN  IF starts = {} THEN 0
        ELSE IF i0 + 3 <= Len(s) /\ Char(s, i0 + 3) = "-" THEN i0 + 4 ELSE i0 + 3

\* re.search(r"ORD-?([A-Za-z0-9]{4,})", s): the start g of the group at the leftmost
\* match, 0 if none
AlnumCodeAt(s, g) == g <= Len(s) /\ IsAlnum(Char(s, g)) /\ AlnumEnd(s, g) - g + 1 >= 4

AlnumCodeGroup(s) ==
    LET starts == { i \in 1..(Len(s) - 2) :
                      /\ SubSeq(s, i, i + 2) = "ORD"
                      /\ \/ (i + 3 <= Len(s) /\ Char(s, i + 3) = "-" /\ AlnumCodeAt(s, i + 4))
                         \/ AlnumCodeAt(s, i + 3) }
        i0 == Min(starts)
    IN  IF starts = {} THEN 0
        ELSE IF i0 + 3 <= Len(s) /\ Char(s, i0 + 3) = "-" /\ AlnumCodeAt(s, i0 + 4)
        THEN i0 + 4 ELSE i0 + 3

\* _extract_order_number(lower_message, original_text): Optional string
ExtractOrderNumber(lower_message, original_text) ==
    LET g1 == HexCodeGroup(lower_message)
        t == Strip(original_text)
        g2 == AlnumCodeGroup(t)
    IN  IF g1 # 0 THEN Some("ORD-" \o Upper(SubSeq(lower_message, g1, g1 + 7)))
        ELSE IF g2 # 0 THEN Some("ORD-" \o Upper(SubSeq(t, g2, AlnumEnd(t, g2))))
        ELSE None

\* get_order_by_number(order_number): index of the order row, 0 if none
GetOrderByNumber(ords, order_number) ==
    LET u == Upper(Strip(order_number))
        normalized == IF StartsWith(u, "ORD-") THEN u ELSE IF u # "" THEN "ORD-" \o u ELSE ""
    IN  FirstIndex({ i \in 1..Len(ords) : ords[i].order_number = normalized })

\* get_orders_for_customer(telegram_chat_id, limit=1): index of the latest order of
\* the customer attached to the chat, 0 if none
LatestOrderFor(custs, ords, telegram_chat_id) ==
    LET c == FirstIndex({ i \in 1..Len(custs) : custs[i].telegram_chat_id = telegram_chat_id })
        mine == { i \in 1..Len(ords) : ords[i].customer_id = c }
    IN  IF c = 0 \/ mine = {} THEN 0 ELSE CHOOSE i \in mine : \A j \in mine : j <= i

(***************************************************************************)
(* One turn: handle_message(chat_id, text) (chatbot_service.py)            *)
(***************************************************************************)
\* MAX_MESSAGES_PER_CHAT of conversation_memory.py
MAX_MESSAGES_PER_CHAT == 20

\* A reply, by the return statement that produced it; bill is the estimate and
\* total the order total the text shows
Reply(kind) == [kind |-> kind, bill |-> None, total |-> None, order_number |-> ""]

\* No reply: the exception leaves handle_message and reaches the webhook
Raised == Reply("exception")

\* Seeded fault: the session of the chat is not looked up
HasSessionNever(chat_id) == FALSE

\* state = _booking_state.get(chat_id); if state
HasSession(chat_id) == chat_id \in DOMAIN booking_state

\* state and state.get("step") == step
AtStep(chat_id, step) ==
    chat_id \in DOMAIN booking_state /\ booking_state[chat_id].step = step

\* The end of handle_message: the reply is appended to the conversation memory
\* (two messages, trimmed to MAX_MESSAGES_PER_CHAT) and returned; an exception
\* skips the append.
Finish(chat_id, text, fault, branch, mem, reply) ==
    /\ last' = [chat |-> chat_id, raw |-> Strip(text), fault |-> fault, branch |-> branch,
                step |-> IF chat_id \in DOMAIN booking_state
                         THEN booking_state[chat_id].step ELSE "",
                reply |-> reply]
    /\ memory' = IF reply.kind = "exception" THEN mem
                 ELSE [mem EXCEPT ![chat_id] = Min2(@ + 2, MAX_MESSAGES_PER_CHAT)]
    /\ UNCHANGED inflight

\* A step of the booking flow that touches only the session
SessionTurn(chat_id, text, fault, branch, state, reply) ==
    /\ booking_state' = [booking_state EXCEPT ![chat_id] = state]
    /\ Finish(chat_id, text, fault, branch, memory, reply)
    /\ UNCHANGED <<refdata, tables>>

\* int(s): Optional; None models ValueError
IntOf(s) ==
    LET t == Strip(s)
        signed == t # "" /\ Char(t, 1) \in {"+", "-"}
        digits == IF signed THEN SubSeq(t, 2, Len(t)) ELSE t
    IN  IF ~AllDigits(digits) THEN None
        ELSE IF signed /\ Char(t, 1) = "-" THEN Some(0 - ToInt(digits))
        ELSE Some(ToInt(digits))

RatingSkips == {"skip", "no", "n", "later", "-"}

\* Seeded fault: the range of the rating is not tested
IsRecordableAnyRating(rating, order_id) == order_id # 0

\* line 274: 1 <= rating <= 5 and order_id
IsRecordableRating(rating, order_id) == 1 <= rating /\ rating <= 5 /\ order_id # 0

\* Lines 265-282: the optional rating after a booking
AwaitingRating(chat_id, text, fault) ==
    LET raw == Strip(text)
        state == booking_state[chat_id]
        order_id == Get(state, "order_id", 0)
        rating == IntOf(raw)
        recordable == /\ Lower(raw) \notin RatingSkips
                      /\ ~IsNone(rating)
                      /\ IsRecordableRating(Val(rating), order_id)
    IN  /\ AtStep(chat_id, "awaiting_rating")
        /\ booking_state' = Pop(booking_state, chat_id)
        /\ feedback' = IF recordable /\ fault # "db_down"
                       THEN Append(feedback, [order_id |-> order_id, rating |-> Val(rating)])
                       ELSE feedback
        /\ Finish(chat_id, text, fault, "rating", memory,
                  IF Lower(raw) \in RatingSkips THEN Reply("rate_later_skip")
                  ELSE IF recordable /\ fault # "db_down" THEN Reply("rating_thanks")
                  ELSE Reply("rate_later"))
        /\ UNCHANGED <<refdata, customers, orders, order_items, order_status_logs, shown>>

\* Lines 288-299
StepName(chat_id, text, fault) ==
    LET raw == Strip(text)
        state == booking_state[chat_id]
    IN  /\ AtStep(chat_id, "name")
        /\ SessionTurn(chat_id, text, fault, "name",
                       Put(Put(state, "name", raw), "step", "address"), Reply("ask_address"))
        /\ UNCHANGED shown

\* Seeded fault: the address step has no test for "skip"
IsSkipNever(raw) == FALSE

\* Line 302: raw.lower().strip() == "skip"
IsSkip(raw) == Strip(Lower(raw)) = "skip"

\* Lines 300-332
StepAddress(chat_id, text, fault) ==
    LET raw == Strip(text)
        state == booking_state[chat_id]
        db_ok == fault \notin {"db_down", "areas_down"}
    IN  /\ AtStep(chat_id, "address")
        /\ IF IsSkip(raw)
           THEN SessionTurn(chat_id, text, fault, "address", state, Reply("address_needed"))
           ELSE IF ~IsPuneAddress(pune_areas, raw, db_ok)
           THEN SessionTurn(chat_id, text, fault, "address", state, Reply("pune_only"))
           ELSE SessionTurn(chat_id, text, fault, "address",
                            Put(Put(state, "address", Strip(raw)), "step", "phone"),
                            Reply("ask_phone"))
        /\ UNCHANGED shown

\* Lines 333-343
StepPhone(chat_id, text, fault) ==
    LET raw == Strip(text)
        state == booking_state[chat_id]
    IN  /\ AtStep(chat_id, "phone")
        /\ SessionTurn(chat_id, text, fault, "phone",
                       Put(Put(state, "phone", raw), "step", "delivery"), Reply("ask_delivery"))
        /\ UNCHANGED shown

\* Seeded fault: the reply "1" is read as create_booking reads a tier
DeliveryTypeOfAnyNumber(message) == IF message \in {"express", "1", "2"} THEN "express" ELSE "standard"

\* line 345
DeliveryTypeOf(message) == IF message \in {"2", "express"} THEN "express" ELSE "standard"

\* Lines 344-360
StepDelivery(chat_id, text, fault) ==
    LET message == Lower(Strip(text))
        state == booking_state[chat_id]
    IN  /\ AtStep(chat_id, "delivery")
        /\ SessionTurn(chat_id, text, fault, "delivery",
                       Put(Put(state, "delivery_type", DeliveryTypeOf(message)), "step", "service"),
                       Reply("ask_service"))
        /\ UNCHANGED shown

\* choice_map of lines 362-365
ChoiceMap ==
    [x \in {"1", "2", "3", "4", "5", "6", "7", "8"} |->
        CASE x = "1" -> "wash_only" [] x = "2" -> "wash_iron" [] x = "3" -> "dry_clean"
          [] x = "4" -> "shoe_clean" [] x = "5" -> "home_textiles" [] x = "6" -> "premium_iron"
          [] x = "7" -> "press_iron" [] x = "8" -> "steam_iron"]

\* line 366
ServiceChoiceOf(message) == Get(ChoiceMap, message, "wash_only")

\* Seeded fault: the ironing services are sent to the weight step
StepAfterServiceWithoutIroning(service_choice) ==
    IF service_choice = "shoe_clean" THEN "shoe_quantity"
    ELSE IF service_choice = "home_textiles" THEN "home_textiles_type"
    ELSE "weight"

\* Lines 369-394: the quantity sub-flow a service starts
StepAfterService(service_choice) ==
    IF service_choice = "shoe_clean" THEN "shoe_quantity"
    ELSE IF service_choice = "home_textiles" THEN "home_textiles_type"
    ELSE IF service_choice \in {"premium_iron", "press_iron", "steam_iron"} THEN "iron_quantity"
    ELSE "weight"

\* Lines 361-402
StepService(chat_id, text, fault) ==
    LET message == Lower(Strip(text))
        state == booking_state[chat_id]
        choice == ServiceChoiceOf(message)
        next == StepAfterService(choice)
    IN  /\ AtStep(chat_id, "service")
        /\ SessionTurn(chat_id, text, fault, "service",
                       Put(Put(state, "service_choice", choice), "step", next),
                       Reply("ask_" \o next))
        /\ UNCHANGED shown

\* A quantity step that accepted a weight: the weight and its note are stored, the
\* session moves to pickup_type and the reply carries the estimate when "show" holds
QuantityAccepted(chat_id, text, fault, branch, state, weight_kg, weight_note, total_bill, show) ==
    /\ SessionTurn(chat_id, text, fault, branch,
                   Put(Put(Put(state, "weight_kg", weight_kg), "weight_note", weight_note),
                       "step", "pickup_type"),
                   [Reply("ask_pickup_type") EXCEPT !.bill = IF show THEN total_bill ELSE None])
    /\ shown' = [shown EXCEPT ![chat_id] = IF show THEN total_bill ELSE None]

\* "if total_bill": neither None nor 0
Truthy(total_bill) == ~IsNone(total_bill) /\ Val(total_bill) # 0

\* Lines 403-428
StepShoeQuantity(chat_id, text, fault) ==
    LET raw == Strip(text)
        state == booking_state[chat_id]
        Shown(weight_kg, weight_note, total_bill) ==
            QuantityAccepted(chat_id, text, fault, "shoe_quantity", state, weight_kg, weight_note,
                             total_bill, Truthy(total_bill))
        Priced(weight_kg, weight_note) ==
            Shown(weight_kg, weight_note,
                  EstimatePrice(services, Get(state, "service_choice", "shoe_clean"), weight_kg,
                                Get(state, "delivery_type", "standard"), fault # "db_down"))
        Parsed(qty) ==
            IF IsNone(qty)
            THEN SessionTurn(chat_id, text, fault, "shoe_quantity", state, Reply("shoe_quantity_again"))
                 /\ UNCHANGED shown
            ELSE Priced(Val(qty) * WEIGHT_PER_SHOE_PAIR, Some(Plural(Val(qty), "pair") \o " of shoes"))
    IN  /\ AtStep(chat_id, "shoe_quantity")
        /\ Parsed(ParseQuantity(raw, 1, 20))

\* line 431
TextileTypeOf(message) ==
    Get([x \in {"1", "2", "3"} |->
            CASE x = "1" -> "bedsheet" [] x = "2" -> "carpet" [] x = "3" -> "curtains"],
        message, "bedsheet")

\* Lines 429-439
StepHomeTextilesType(chat_id, text, fault) ==
    LET message == Lower(Strip(text))
        state == booking_state[chat_id]
    IN  /\ AtStep(chat_id, "home_textiles_type")
        /\ SessionTurn(chat_id, text, fault, "home_textiles_type",
                       Put(Put(state, "home_textiles_type", TextileTypeOf(message)), "step", "weight"),
                       Reply("ask_textile_quantity"))
        /\ UNCHANGED shown

\* f"{weight_kg}" for a weight in hundredths of a kilogram
KgRepr(w) ==
    FloatRepr(IntToStr(w \div 100) \o "." \o (IF w % 100 < 10 THEN "0" ELSE "") \o IntToStr(w % 100))

\* Lines 440-471
StepIronQuantity(chat_id, text, fault) ==
    LET raw == Strip(text)
        state == booking_state[chat_id]
        Shown(weight_kg, weight_note, total_bill) ==
            QuantityAccepted(chat_id, text, fault, "iron_quantity", state, weight_kg, weight_note,
                             total_bill, Truthy(total_bill))
        Priced(weight_kg, weight_note) ==
            Shown(weight_kg, weight_note,
                  EstimatePrice(services, Get(state, "service_choice", "premium_iron"), weight_kg,
                                Get(state, "delivery_type", "standard"), fault # "db_down"))
        Parsed(qty, parsed) ==
            IF ~IsNone(qty)
            THEN Priced(Max2(MIN_WEIGHT, Val(qty) * WEIGHT_PER_IRON_PIECE),
                        Some(Plural(Val(qty), "piece") \o " to iron"))
            ELSE IF IsNone(parsed.kg) \/ Val(parsed.kg) < MIN_WEIGHT \/ Val(parsed.kg) > MAX_WEIGHT
            THEN SessionTurn(chat_id, text, fault, "iron_quantity", state, Reply("iron_quantity_again"))
                 /\ UNCHANGED shown
            ELSE Priced(Val(parsed.kg),
                        IF ~IsNone(parsed.note) /\ Val(parsed.note) # "" THEN parsed.note
                        ELSE Some(KgRepr(Val(parsed.kg)) \o " kg"))
    IN  /\ AtStep(chat_id, "iron_quantity")
        /\ Parsed(ParseQuantity(raw, 1, 100), ParseWeightFromMessage(raw))

\* Lines 472-516
StepWeight(chat_id, text, fault) ==
    LET raw == Strip(text)
        state == booking_state[chat_id]
        textiles == Get(state, "service_choice", "") = "home_textiles"
                    /\ Get(state, "home_textiles_type", "") # ""
        Shown(weight_kg, weight_note, total_bill) ==
            QuantityAccepted(chat_id, text, fault, "weight", state, weight_kg, weight_note,
                             total_bill, ~IsNone(total_bill))
        Priced(weight_kg, weight_note) ==
            Shown(weight_kg, weight_note,
                  EstimatePrice(services, Get(state, "service_choice", "wash_only"), weight_kg,
                                Get(state, "delivery_type", "standard"), fault # "db_down"))
        Parsed(parsed) ==
            IF IsNone(parsed.kg)
            THEN SessionTurn(chat_id, text, fault, "weight", state,
                             IF Get(state, "service_choice", "") = "home_textiles"
                             THEN Reply("textile_quantity_again") ELSE Reply("weight_again"))
                 /\ UNCHANGED shown
            ELSE IF Val(parsed.kg) < MIN_WEIGHT \/ Val(parsed.kg) > MAX_WEIGHT
            THEN SessionTurn(chat_id, text, fault, "weight", state, Reply("weight_out_of_range"))
                 /\ UNCHANGED shown
            ELSE Priced(Val(parsed.kg), parsed.note)
    IN  /\ AtStep(chat_id, "weight")
        /\ Parsed(IF textiles THEN ParseHomeTextilesWeight(raw, state["home_textiles_type"])
                  ELSE ParseWeightFromMessage(raw))

\* line 518
PickupTypeOf(message) ==
    IF message \in {"2", "home", "pickup"} THEN "home_pickup" ELSE "self_drop"

\* Seeded fault: the home address is never asked for
StepAfterPickupSkippingAddress(pickup_type) == "pickup_datetime"

\* Lines 520-528: the step after the pickup option
StepAfterPickup(pickup_type) ==
    IF pickup_type = "home_pickup" THEN "home_address" ELSE "pickup_datetime"

\* Lines 517-534
StepPickupType(chat_id, text, fault) ==
    LET message == Lower(Strip(text))
        state == booking_state[chat_id]
        pickup_type == PickupTypeOf(message)
    IN  /\ AtStep(chat_id, "pickup_type")
        /\ SessionTurn(chat_id, text, fault, "pickup_type",
                       Put(Put(state, "pickup_type", pickup_type), "step", StepAfterPickup(pickup_type)),
                       Reply("ask_" \o StepAfterPickup(pickup_type)))
        /\ UNCHANGED shown

\* Lines 535-548
StepHomeAddress(chat_id, text, fault) ==
    LET home_addr == Strip(Strip(text))
        state == booking_state[chat_id]
    IN  /\ AtStep(chat_id, "home_address")
        /\ IF home_addr = ""
           THEN SessionTurn(chat_id, text, fault, "home_address", state, Reply("home_address_again"))
           ELSE SessionTurn(chat_id, text, fault, "home_address",
                            Put(Put(Put(state, "pickup_address", home_addr),
                                    "delivery_address", home_addr), "step", "pickup_datetime"),
                            Reply("ask_pickup_datetime"))
        /\ UNCHANGED shown

\* Lines 549-564
StepPickupDatetime(chat_id, text, fault) ==
    LET state == booking_state[chat_id]
    IN  /\ AtStep(chat_id, "pickup_datetime")
        /\ SessionTurn(chat_id, text, fault, "pickup_datetime",
                       Put(Put(state, "preferred_pickup_at", Strip(Strip(text))),
                           "step", "delivery_datetime"),
                       Reply("ask_delivery_datetime"))
        /\ UNCHANGED shown

\* Lines 565-573
StepDeliveryDatetime(chat_id, text, fault) ==
    LET state == booking_state[chat_id]
    IN  /\ AtStep(chat_id, "delivery_datetime")
        /\ SessionTurn(chat_id, text, fault, "delivery_datetime",
                       Put(Put(state, "preferred_delivery_at", Strip(Strip(text))),
                           "step", "instructions"),
                       Reply("ask_instructions"))
        /\ UNCHANGED shown

NoInstructions == {"no", "none", "nope", "skip", "-"}

\* Lines 574-588
StepInstructions(chat_id, text, fault) ==
    LET raw == Strip(text)
        state == booking_state[chat_id]
        instructions == IF Lower(Strip(raw)) \in NoInstructions THEN "" ELSE Strip(raw)
    IN  /\ AtStep(chat_id, "instructions")
        /\ SessionTurn(chat_id, text, fault, "instructions",
                       Put(Put(state, "customer_instructions", instructions), "step", "payment"),
                       Reply("ask_payment"))
        /\ UNCHANGED shown

\* Seeded fault: an unrecognised payment reply falls back to cash on delivery, as
\* the other menus fall back to their first entry
PaymentMethodOrCash(pm) ==
    IF pm \in {"2", "upi"} THEN Some("upi")
    ELSE IF pm \in {"3", "card", "online", "netbanking"} THEN Some("online")
    ELSE Some("cod")

\* Seeded fault: any other text is taken as an online payment
PaymentMethodOrOnline(pm) ==
    IF pm \in {"1", "cash", "cod", "cash on delivery"} THEN Some("cod")
    ELSE IF pm \in {"2", "upi"} THEN Some("upi")
    ELSE Some("online")

\* Lines 591-598: the payment method chosen, Optional
PaymentMethodOf(pm) ==
    IF pm \in {"1", "cash", "cod", "cash on delivery"} THEN Some("cod")
    ELSE IF pm \in {"2", "upi"} THEN Some("upi")
    ELSE IF pm \in {"3", "card", "online", "netbanking"} THEN Some("online")
    ELSE None

\* Lines 610-633: the arguments of create_booking, read from the session
BookingArgs(state, payment_method) ==
    LET pickup_type == Get(state, "pickup_type", "self_drop")
    IN  [full_name |-> Get(state, "name", ""),
         address |-> Get(state, "address", ""),
         phone |-> Get(state, "phone", ""),
         delivery_type |-> Get(state, "delivery_type", "standard"),
         service_choice |-> Get(state, "service_choice", "wash_only"),
         weight_kg |-> Get(state, "weight_kg", 100),
         weight_note |-> Get(state, "weight_note", None),
         customer_instructions |-> Get(state, "customer_instructions", ""),
         pickup_type |-> pickup_type,
         pickup_address |-> IF pickup_type = "home_pickup" THEN Get(state, "pickup_address", "") ELSE "",
         delivery_address |-> IF pickup_type = "home_pickup" THEN Get(state, "delivery_address", "") ELSE "",
         payment_method |-> payment_method,
         preferred_pickup_at |-> StrOrNone(Get(state, "preferred_pickup_at", "")),
         preferred_delivery_at |-> StrOrNone(Get(state, "preferred_delivery_at", ""))]

\* Seeded fault: the rating session is made by updating the booking session
RatingSessionKeepingFields(state, result) ==
    Put(Put(state, "step", "awaiting_rating"), "order_id", result.order_id)

\* Seeded fault: the session is removed only after a successful creation
SessionsKept(bs, chat_id) == bs

\* line 689: the session that waits for the rating
RatingSession(state, result) == [step |-> "awaiting_rating", order_id |-> result.order_id]

\* Seeded fault: the sessions of all chats are removed
SessionsAllRemoved(bs, chat_id) == [c \in {} |-> 0]

\* line 609: the session is removed before create_booking is called
SessionsForCreation(bs, chat_id) == Pop(bs, chat_id)

\* Seeded fault: the no-outlets result gets the generic apology
PaymentReplyWithoutOutletMessage(result) ==
    IF result.error = "setup" THEN Reply("setup_needed")
    ELSE IF result.error \in {"no_outlets", "exception"} THEN Reply("booking_failed")
    ELSE [Reply("booking_confirmed") EXCEPT !.total = Some(result.total_price),
                                            !.order_number = result.order_number]

\* Lines 634-698: the reply to the payment turn
PaymentReply(result) ==
    IF result.error = "setup" THEN Reply("setup_needed")
    ELSE IF result.error = "no_outlets" THEN Reply("no_outlets")
    ELSE IF result.error = "exception" THEN Reply("booking_failed")
    ELSE [Reply("booking_confirmed") EXCEPT !.total = Some(result.total_price),
                                            !.order_number = result.order_number]

\* Lines 589-698
StepPayment(chat_id, text, fault) ==
    LET pm == Strip(Lower(Strip(text)))
        state == booking_state[chat_id]
        Created(state1, popped, r) ==
            /\ booking_state' =
                   IF r.result.error = ""
                   THEN Put(popped, chat_id, RatingSession(state1, r.result))
                   ELSE popped
            /\ customers' = r.db.customers
            /\ orders' = r.db.orders
            /\ order_items' = r.db.order_items
            /\ order_status_logs' = r.db.order_status_logs
            /\ Finish(chat_id, text, fault, "payment", memory, PaymentReply(r.result))
            /\ UNCHANGED <<refdata, feedback>>
        Stored(state1) ==
            Created(state1, SessionsForCreation(booking_state, chat_id),
                    CreateBooking(chat_id, BookingArgs(state1, state1["payment_method"]), fault))
        Chosen(payment_method) ==
            IF IsNone(payment_method)
            THEN SessionTurn(chat_id, text, fault, "payment", state, Reply("payment_again"))
            ELSE Stored(Put(state, "payment_method", Val(payment_method)))
    IN  /\ AtStep(chat_id, "payment")
        /\ Chosen(PaymentMethodOf(pm))
        /\ UNCHANGED shown

\* Largest number of rows of the orders table; a booking starts only below it
MaxOrders == 1

\* Lines 726-742: the reply to a message that carries an order number
OrderNumberReply(order_num, db_ok) ==
    LET order == GetOrderByNumber(orders, order_num)
    IN  IF ~db_ok THEN Raised
        ELSE IF order # 0
        THEN [Reply("order_status") EXCEPT !.order_number = orders[order].order_number]
        ELSE [Reply("order_not_found") EXCEPT !.order_number = order_num]

\* Lines 745-762: the reply to a tracking request without an order number
TrackReply(chat_id, db_ok) ==
    LET latest == LatestOrderFor(customers, orders, chat_id)
        o == GetOrderByNumber(orders, orders[latest].order_number)
    IN  IF ~db_ok THEN Raised
        ELSE IF latest = 0 THEN Reply("send_order_id_or_book")
        ELSE IF o # 0
        THEN [Reply("latest_order") EXCEPT !.order_number = orders[o].order_number]
        ELSE Reply("send_order_id")

\* The messages tried at each step of the flow ("" is the step of a chat without a
\* session)
InputsAt(step) ==
    CASE step = "" -> {"/start", "where is my order", "Book", "ORD-678D45BC", "thanks a lot",
                       "order lagana hai", "book my order"}
      [] step = "name" -> {"Asha Rao", "/start"}
      [] step = "address" -> {"12 Kothrud", "skip", " SKIP ", "123 MG Road Mumbai", "/start"}
      [] step = "phone" -> {"98765 43210"}
      [] step = "delivery" -> {"1", "2", "9"}
      [] step = "service" -> {"2", "4", "5", "6", "9"}
      [] step = "shoe_quantity" -> {"2", "abc"}
      [] step = "home_textiles_type" -> {"2", "9"}
      [] step = "iron_quantity" -> {"5", "abc"}
      [] step = "weight" -> {"0.2", "5 shirts 2 pants", "40", "abc", "40 carpets"}
      [] step = "pickup_type" -> {"1", "2", "9"}
      [] step = "home_address" -> {"12 Baner Road", "x"}
      [] step = "pickup_datetime" -> {"17 Feb 11am"}
      [] step = "delivery_datetime" -> {"17 Feb 6pm"}
      [] step = "instructions" -> {"no"}
      [] step = "payment" -> {"upi", "9", "/start", "track my order"}
      [] step = "awaiting_rating" -> {"5", "skip", "9", "great", "/start"}

\* Seeded fault: the booking keywords are tested before the order-related ones
RouteOfBookFirst(text) ==
    LET message == Lower(Strip(Strip(text)))
    IN  IF message \in {"/start", "start"} THEN "start"
        ELSE IF IsGreetingOrCasual(message) THEN "greeting"
        ELSE IF IsShowMyQuestionsIntent(message) THEN "show_questions"
        ELSE IF IsBookIntent(message) THEN "book"
        ELSE IF IsOrderRelated(message) THEN "order_query"
        ELSE IF ~IsNone(ExtractOrderNumber(message, text)) THEN "order_number"
        ELSE IF IsTrackIntent(message) THEN "track"
        ELSE IF IsPricingIntent(message) THEN "pricing"
        ELSE "fallback"

\* Lines 700-769: the branch of the router a message takes, in the order of the tests
RouteOf(text) ==
    LET message == Lower(Strip(Strip(text)))
    IN  IF message \in {"/start", "start"} THEN "start"
        ELSE IF IsGreetingOrCasual(message) THEN "greeting"
        ELSE IF IsShowMyQuestionsIntent(message) THEN "show_questions"
        ELSE IF IsOrderRelated(message) THEN "order_query"
        ELSE IF IsBookIntent(message) THEN "book"
        ELSE IF ~IsNone(ExtractOrderNumber(message, text)) THEN "order_number"
        ELSE IF IsTrackIntent(message) THEN "track"
        ELSE IF IsPricingIntent(message) THEN "pricing"
        ELSE "fallback"

\* RouteOf, tabulated once for the messages tried without a session
Routes == [text \in InputsAt("") |-> RouteOf(text)]

\* Lines 700-778: a message of a chat that has no session
Router(chat_id, text, fault) ==
    LET db_ok == fault # "db_down"
        Answer(route, reply) ==
            /\ booking_state' = booking_state
            /\ Finish(chat_id, text, fault, route, memory, reply)
            /\ UNCHANGED shown
        Routed(route) ==
            CASE route = "start" ->
                   /\ booking_state' = booking_state
                   /\ Finish(chat_id, text, fault, route, [memory EXCEPT ![chat_id] = 0], Reply("welcome"))
                   /\ UNCHANGED shown
              [] route = "greeting" -> Answer(route, Reply("greeting"))
              [] route = "show_questions" -> Answer(route, Reply("recent_questions"))
              \* answer_order_query takes no conversation_history: the call raises TypeError
              [] route = "order_query" -> Answer(route, Raised)
              [] route = "book" ->
                   /\ Len(orders) < MaxOrders
                   /\ booking_state' = Put(booking_state, chat_id, [step |-> "name"])
                   /\ Finish(chat_id, text, fault, route, memory, Reply("ask_name"))
                   /\ shown' = [shown EXCEPT ![chat_id] = None]
              [] route = "order_number" ->
                   Answer(route,
                          OrderNumberReply(Val(ExtractOrderNumber(Lower(Strip(Strip(text))), text)),
                                           db_ok))
              [] route = "track" -> Answer(route, TrackReply(chat_id, db_ok))
              [] route = "pricing" -> Answer(route, Reply("rag_reply"))
              [] route = "fallback" ->
                   \E rag_answers \in BOOLEAN :
                       Answer(route, IF rag_answers THEN Reply("rag_reply") ELSE Reply("menu"))
    IN  /\ ~HasSession(chat_id)
        /\ Routed(Routes[text])
        /\ UNCHANGED <<refdata, tables>>

(***************************************************************************)
(* The worlds the bot runs in, and the messages it receives                *)
(***************************************************************************)
Chats == {"c1"}

\* services.base_price in paise per kilogram, by service_name
FullCatalog ==
    [wash |-> 5000, iron |-> 2050, dry_clean |-> 12000, shoe_clean |-> 14999,
     home_textiles |-> 8000, premium_iron |-> 3333, press_iron |-> 1500, steam_iron |-> 2500]

PartialCatalog == [wash |-> 5000, shoe_clean |-> 14999]

EmptyCatalog == [x \in {} |-> 0]

BothOutlets ==
    <<[id |-> "o1", outlet_name |-> "Kothrud Central", is_active |-> TRUE],
      [id |-> "o2", outlet_name |-> "Baner Hub", is_active |-> TRUE]>>

FirstOnMaintenance ==
    <<[id |-> "o1", outlet_name |-> "Kothrud Central", is_active |-> FALSE],
      [id |-> "o2", outlet_name |-> "Baner Hub", is_active |-> TRUE]>>

NoActiveOutlet ==
    <<[id |-> "o1", outlet_name |-> "Kothrud Central", is_active |-> FALSE]>>

AreaRows ==
    <<[area_name |-> "Kothrud", outlet_id |-> "o1"], [area_name |-> "Baner", outlet_id |-> "o2"]>>

Worlds ==
    {[services |-> FullCatalog, outlets |-> BothOutlets, pune_areas |-> AreaRows],
     [services |-> PartialCatalog, outlets |-> FirstOnMaintenance, pune_areas |-> AreaRows],
     [services |-> EmptyCatalog, outlets |-> BothOutlets, pune_areas |-> <<>>],
     [services |-> FullCatalog, outlets |-> NoActiveOutlet, pune_areas |-> AreaRows]}

\* The failures of the store a turn at each step can meet: the steps that do not
\* call the store meet none
FaultsAt(step) ==
    IF step = "payment" THEN Faults
    ELSE IF step = "address" THEN {"none", "areas_down"}
    ELSE IF step \in {"", "shoe_quantity", "iron_quantity", "weight", "awaiting_rating"}
    THEN {"none", "db_down"}
    ELSE {"none"}

Init ==
    /\ booking_state = [c \in {} |-> 0]
    /\ memory = [c \in Chats |-> 0]
    /\ \E w \in Worlds :
          /\ services = w.services
          /\ outlets = w.outlets
          /\ pune_areas = w.pune_areas
    /\ customers = <<>>
    /\ orders = <<>>
    /\ order_items = <<>>
    /\ order_status_logs = <<>>
    /\ feedback = <<>>
    /\ last = [chat |-> "", raw |-> "", fault |-> "none", branch |-> "", step |-> "", reply |-> Reply("")]
    /\ shown = [c \in Chats |-> None]
    /\ inflight = <<>>

\* handle_message(chat_id, text): lines 255-259 and the dispatch of lines 262-778, on
\* the messages and the failures of the step the chat is at
Next ==
    \/ \E chat_id \in Chats, text \in InputsAt("awaiting_rating"), fault \in FaultsAt("awaiting_rating") :
           AwaitingRating(chat_id, text, fault)
    \/ \E chat_id \in Chats, text \in InputsAt("name"), fault \in FaultsAt("name") :
           StepName(chat_id, text, fault)
    \/ \E chat_id \in Chats, text \in InputsAt("address"), fault \in FaultsAt("address") :
           StepAddress(chat_id, text, fault)
    \/ \E chat_id \in Chats, text \in InputsAt("phone"), fault \in FaultsAt("phone") :
           StepPhone(chat_id, text, fault)
    \/ \E chat_id \in Chats, text \in InputsAt("delivery"), fault \in FaultsAt("delivery") :
           StepDelivery(chat_id, text, fault)
    \/ \E chat_id \in Chats, text \in InputsAt("service"), fault \in FaultsAt("service") :
           StepService(chat_id, text, fault)
    \/ \E chat_id \in Chats, text \in InputsAt("shoe_quantity"), fault \in FaultsAt("shoe_quantity") :
           StepShoeQuantity(chat_id, text, fault)
    \/ \E chat_id \in Chats, text \in InputsAt("home_textiles_type"), fault \in FaultsAt("home_textiles_type") :
           StepHomeTextilesType(chat_id, text, fault)
    \/ \E chat_id \in Chats, text \in InputsAt("iron_quantity"), fault \in FaultsAt("iron_quantity") :
           StepIronQuantity(chat_id, text, fault)
    \/ \E chat_id \in Chats, text \in InputsAt("weight"), fault \in FaultsAt("weight") :
           StepWeight(chat_id, text, fault)
    \/ \E chat_id \in Chats, text \in InputsAt("pickup_type"), fault \in FaultsAt("pickup_type") :
           StepPickupType(chat_id, text, fault)
    \/ \E chat_id \in Chats, text \in InputsAt("home_address"), fault \in FaultsAt("home_address") :
           StepHomeAddress(chat_id, text, fault)
    \/ \E chat_id \in Chats, text \in InputsAt("pickup_datetime"), fault \in FaultsAt("pickup_datetime") :
           StepPickupDatetime(chat_id, text, fault)
    \/ \E chat_id \in Chats, text \in InputsAt("delivery_datetime"), fault \in FaultsAt("delivery_datetime") :
           StepDeliveryDatetime(chat_id, text, fault)
    \/ \E chat_id \in Chats, text \in InputsAt("instructions"), fault \in FaultsAt("instructions") :
           StepInstructions(chat_id, text, fault)
    \/ \E chat_id \in Chats, text \in InputsAt("payment"), fault \in FaultsAt("payment") :
           StepPayment(chat_id, text, fault)
    \/ \E chat_id \in Chats, text \in InputsAt(""), fault \in FaultsAt("") :
           Router(chat_id, text, fault)

Spec == Init /\ [][Next]_vars

(***************************************************************************)
(* Properties                                                              *)
(***************************************************************************)
\* The step of a chat's session in bs; "" when it has none
SessionStep(bs, chat_id) == IF chat_id \in DOMAIN bs THEN bs[chat_id].step ELSE ""

\* The turn taken is a turn of chat_id
TurnOf(chat_id) == last'.chat = chat_id

\* The turn taken appended a row to orders
OrderPersisted == Len(orders') = Len(orders) + 1

\* The turn taken completed an order (its status log entry is the last write)
OrderCompleted == Len(order_status_logs') = Len(order_status_logs) + 1

\* The quantity sub-flow the specification gives each service selection
QuantityFlowOf(service_choice) ==
    CASE service_choice = "shoe_clean" -> "shoe_quantity"
      [] service_choice = "home_textiles" -> "home_textiles_type"
      [] service_choice \in {"premium_iron", "press_iron", "steam_iron"} -> "iron_quantity"
      [] OTHER -> "weight"

\* The step that follows "from" in the flow of the specification, given the session
\* "after" the turn
FlowSuccessor(from, after) ==
    CASE from = "name" -> "address"
      [] from = "address" -> "phone"
      [] from = "phone" -> "delivery"
      [] from = "delivery" -> "service"
      [] from = "service" -> QuantityFlowOf(after.service_choice)
      [] from = "shoe_quantity" -> "pickup_type"
      [] from = "home_textiles_type" -> "weight"
      [] from = "iron_quantity" -> "pickup_type"
      [] from = "weight" -> "pickup_type"
      [] from = "pickup_type" ->
             IF after.pickup_type = "home_pickup" THEN "home_address" ELSE "pickup_datetime"
      [] from = "home_address" -> "pickup_datetime"
      [] from = "pickup_datetime" -> "delivery_datetime"
      [] from = "delivery_datetime" -> "instructions"
      [] from = "instructions" -> "payment"
      [] from = "payment" -> "awaiting_rating"

\* A turn keeps the step, or moves it to its successor in the flow
FlowStep(chat_id) ==
    LET from == SessionStep(booking_state, chat_id)
        to == SessionStep(booking_state', chat_id)
    IN  \/ to = from
        \/ from = "" /\ to = "name"
        \/ from \in {"payment", "awaiting_rating"} /\ to = ""
        \/ from \notin {"", "awaiting_rating"} /\ to # ""
           /\ to = FlowSuccessor(from, booking_state'[chat_id])

C2_AlwaysReplies == last.reply.kind # "exception"

DeliveryChoices == {"1", "2", "standard", "express"}

ServiceChoices == {"1", "2", "3", "4", "5", "6", "7", "8"}

TextileChoices == {"1", "2", "3"}

PickupChoices == {"1", "2"}

\* The last turn was a reply to a menu that is none of the menu's choices
UnrecognisedMenuChoice ==
    \/ last.step = "delivery" /\ Lower(last.raw) \notin DeliveryChoices
    \/ last.step = "service" /\ Lower(last.raw) \notin ServiceChoices
    \/ last.step = "home_textiles_type" /\ Lower(last.raw) \notin TextileChoices
    \/ last.step = "pickup_type" /\ Lower(last.raw) \notin PickupChoices

\* C3: an unrecognised choice at the delivery, service, textile-type or pickup menu
\* leaves the session at the step it was at.
C3_InvalidChoiceKeepsStep ==
    UnrecognisedMenuChoice => SessionStep(booking_state, last.chat) = last.step

\* C4: after a restart command received while a session exists, the chat has no
\* session.
C4_RestartDiscardsSession ==
    (last.step # "" /\ Lower(last.raw) \in {"/start", "start"})
        => last.chat \notin DOMAIN booking_state

\* The replies of the payment step the specification allows as payment choices
PaymentChoices ==
    {"1", "2", "3", "cash", "cod", "cash on delivery", "upi", "card", "online", "netbanking"}

CreationErrorReplies == {"setup_needed", "no_outlets", "booking_failed"}

RouterBranches ==
    {"start", "greeting", "show_questions", "order_query", "book", "order_number", "track",
     "pricing", "fallback"}

\* C5: when the order creation of a payment turn fails, the chat has no session
\* after the turn, the reply is one of the error messages, and the next turn of the
\* chat is handled by the router.
C5_FailedCreationClearsSession ==
    [][\A chat_id \in Chats :
          /\ (/\ AtStep(chat_id, "payment")
              /\ TurnOf(chat_id)
              /\ Lower(last'.raw) \in PaymentChoices
              /\ ~OrderCompleted)
             => /\ chat_id \notin DOMAIN booking_state'
                /\ last'.reply.kind \in CreationErrorReplies
          /\ (/\ last.chat = chat_id
              /\ last.branch = "payment"
              /\ last.reply.kind \in CreationErrorReplies
              /\ TurnOf(chat_id))
             => last'.branch \in RouterBranches]_vars

\* A creation failed with an exception and the chat went on through the router
C5_Witness ==
    /\ last.branch = "payment"
    /\ last.reply.kind = "booking_failed"
    /\ "c1" \notin DOMAIN booking_state

\* C6: when the order creation of a payment turn succeeds, the chat's session after
\* the turn holds the step awaiting_rating and the id of the created order, and
\* nothing else.
C6_RatingSessionOnly ==
    [][\A chat_id \in Chats :
          (AtStep(chat_id, "payment") /\ TurnOf(chat_id) /\ OrderCompleted)
             => /\ chat_id \in DOMAIN booking_state'
                /\ DOMAIN booking_state'[chat_id] = {"step", "order_id"}
                /\ booking_state'[chat_id].step = "awaiting_rating"
                /\ booking_state'[chat_id].order_id = Len(orders')]_vars

\* A booking made for a home pickup was created and waits for its rating
C6_Witness ==
    /\ AtStep("c1", "awaiting_rating")
    /\ last.reply.kind = "booking_confirmed"
    /\ orders[booking_state["c1"].order_id].pickup_address # None

RatingReplies == {"rate_later_skip", "rating_thanks", "rate_later"}

\* C7: a turn at awaiting_rating removes the session and replies without asking
\* again; it records feedback only for an integer 1..5, for the session's order; and
\* no order has two feedback rows.
C7_RatingTerminates ==
    /\ [](\A i, j \in DOMAIN feedback : feedback[i].order_id = feedback[j].order_id => i = j)
    /\ [][\A chat_id \in Chats :
             (AtStep(chat_id, "awaiting_rating") /\ TurnOf(chat_id))
                => /\ chat_id \notin DOMAIN booking_state'
                   /\ last'.reply.kind \in RatingReplies
                   /\ \/ feedback' = feedback
                      \/ \E rating \in 1..5 :
                            /\ IntOf(last'.raw) = Some(rating)
                            /\ feedback' = Append(feedback,
                                                  [order_id |-> booking_state[chat_id].order_id,
                                                   rating |-> rating])]_vars

\* A rating was recorded and the session is gone
C7_Witness ==
    /\ Len(feedback) = 1
    /\ last.reply.kind = "rating_thanks"
    /\ "c1" \notin DOMAIN booking_state

\* C8: the orders table changes only in a payment turn with a valid payment choice,
\* which appends exactly one row and leaves the others as they were; a completed
\* session has appended exactly one.
C8_OrderCreatedOnce ==
    [][/\ orders' # orders
          => /\ \E chat_id \in Chats :
                   /\ AtStep(chat_id, "payment")
                   /\ TurnOf(chat_id)
                   /\ Lower(last'.raw) \in PaymentChoices
             /\ OrderPersisted
             /\ SubSeq(orders', 1, Len(orders)) = orders
       /\ \A chat_id \in Chats :
             (SessionStep(booking_state', chat_id) = "awaiting_rating"
              /\ SessionStep(booking_state, chat_id) # "awaiting_rating")
                => OrderPersisted]_vars

\* After an order was created, the rating turn and a router turn went by
C8_Witness ==
    /\ Len(orders) = 1
    /\ Len(order_status_logs) = 1
    /\ last.branch = "order_number"
    /\ last.reply.kind = "order_status"

RECURSIVE RateSum(_, _)
\* The sum of the catalog's rates of a sequence of service codes
RateSum(catalog, codes) ==
    IF codes = <<>> THEN 0 ELSE catalog[Head(codes)] + RateSum(catalog, Tail(codes))

\* weight times rate sum, plus 30% rounded to 2 decimals for express, rounded to 2
\* decimals: [total, fee] in paise
FormulaTotal(rate_sum, weight_kg, express) ==
    LET base == weight_kg * rate_sum
        fee == IF express THEN RoundDiv(3 * base, 1000) ELSE 0
    IN  [total |-> RoundDiv(base + 100 * fee, 100), fee |-> fee]

\* The order row a payment turn appended agrees with the formula over "codes"
PersistedAsFormula(state, order, codes) ==
    LET expected == FormulaTotal(RateSum(services, codes), order.total_weight_kg,
                                 state.delivery_type = "express")
    IN  /\ MIN_WEIGHT <= order.total_weight_kg
        /\ order.total_weight_kg <= MAX_WEIGHT
        /\ order.total_price = expected.total
        /\ order.express_fee = expected.fee
        /\ (state.delivery_type # "express" => order.express_fee = 0)

\* C9: every order a payment turn persists has a weight in [0.5, 100] kg
\* and a total of weight times the sum of the rates of every service code of the
\* session's selection, plus the express surcharge exactly for an express session.
C9_TotalOverSelection ==
    [][\A chat_id \in Chats :
          (AtStep(chat_id, "payment") /\ TurnOf(chat_id) /\ OrderPersisted)
             => LET state == booking_state[chat_id]
                    codes == SERVICE_MAP[state.service_choice]
                IN  /\ \A i \in 1..Len(codes) : codes[i] \in DOMAIN services
                    /\ PersistedAsFormula(state, orders'[Len(orders')], codes)]_vars

EstimateInputs == {"service_choice", "weight_kg", "delivery_type"}

\* C10: the estimate shown when the quantity step was accepted is the total of the
\* order the session persists, and no step after the quantity step changes the
\* service selection, the weight or the delivery type of the session.
C10_EstimateIsTotal ==
    [][\A chat_id \in Chats :
          /\ (AtStep(chat_id, "payment") /\ TurnOf(chat_id) /\ OrderPersisted
              /\ ~IsNone(shown[chat_id]))
             => orders'[Len(orders')].total_price = Val(shown[chat_id])
          /\ (/\ chat_id \in DOMAIN booking_state
              /\ "weight_kg" \in DOMAIN booking_state[chat_id]
              /\ SessionStep(booking_state', chat_id) \notin {"", "awaiting_rating"})
             => \A k \in EstimateInputs : booking_state'[chat_id][k] = booking_state[chat_id][k]]_vars

\* An order was created after its estimate, above 0, had been shown
C10_Witness ==
    /\ AtStep("c1", "awaiting_rating")
    /\ ~IsNone(shown["c1"])
    /\ Val(shown["c1"]) > 0
    /\ last.reply.total = shown["c1"]

(***************************************************************************)
(* The pricing functions on their own: estimate_price and the totals of    *)
(* create_booking, applied to inputs the booking flow cannot produce too   *)
(***************************************************************************)
\* A catalog without the default code
NoWashCatalog == [iron |-> 2050, dry_clean |-> 12000]

EstimateCatalogs == {FullCatalog, PartialCatalog, NoWashCatalog, EmptyCatalog}

\* service_choice arguments: keys of SERVICE_MAP and a string that is none
EstimateChoices == {"wash_only", "wash_iron", "dry_clean", "premium_iron", "laundry"}

\* weight_kg arguments in hundredths of a kilogram: 0, 0.2, 0.5, 2.5, 100 and 150 kg
EstimateWeights == {0, 20, 50, 250, 10000, 15000}

\* delivery_type arguments: the two tiers a session stores, and a menu key
EstimateTiers == {"standard", "express", "1"}

\* No turn has been handled: no session, empty tables
NoTraffic ==
    /\ booking_state = [c \in {} |-> 0]
    /\ memory = [c \in Chats |-> 0]
    /\ customers = <<>>
    /\ orders = <<>>
    /\ order_items = <<>>
    /\ order_status_logs = <<>>
    /\ feedback = <<>>
    /\ shown = [c \in Chats |-> None]
    /\ inflight = <<>>

EstimateInit ==
    /\ NoTraffic
    /\ services \in EstimateCatalogs
    /\ outlets = BothOutlets
    /\ pune_areas = AreaRows
    /\ last = [op |-> "none"]

\* A call estimate_price(service_choice, weight_kg, delivery_type); last records the
\* call and what it returned
Estimate(service_choice, weight_kg, delivery_type, db_ok) ==
    /\ last' = [op |-> "estimate_price", service_choice |-> service_choice,
                weight_kg |-> weight_kg, delivery_type |-> delivery_type, db_ok |-> db_ok,
                result |-> EstimatePrice(services, service_choice, weight_kg, delivery_type,
                                         db_ok)]
    /\ UNCHANGED <<booking_state, memory, refdata, tables, shown, inflight>>

\* The pricing of create_booking (lines 310-320, 340-341) on the same arguments
Totals(service_choice, weight_kg, delivery_type) ==
    /\ last' = [op |-> "create_booking", service_choice |-> service_choice,
                weight_kg |-> weight_kg, delivery_type |-> delivery_type, db_ok |-> TRUE,
                result |-> BookingTotals(services, service_choice, weight_kg, delivery_type)]
    /\ UNCHANGED <<booking_state, memory, refdata, tables, shown, inflight>>

EstimateNext ==
    \/ \E service_choice \in EstimateChoices, weight_kg \in EstimateWeights,
          delivery_type \in EstimateTiers, db_ok \in BOOLEAN :
           Estimate(service_choice, weight_kg, delivery_type, db_ok)
    \/ \E service_choice \in EstimateChoices, weight_kg \in EstimateWeights,
          delivery_type \in EstimateTiers :
           Totals(service_choice, weight_kg, delivery_type)

EstimateSpec == EstimateInit /\ [][EstimateNext]_vars

\* clamp(weight_kg, 0.5, 100) in hundredths of a kilogram
Clamped(weight_kg) == Max2(MIN_WEIGHT, Min2(MAX_WEIGHT, weight_kg))

\* The call c of estimate_price reached the store and the catalog prices every code
\* of its selection
PricedCall(c) ==
    /\ c.op = "estimate_price"
    /\ c.db_ok
    /\ c.service_choice \in DOMAIN SERVICE_MAP
    /\ \A i \in 1..Len(SERVICE_MAP[c.service_choice]) :
          SERVICE_MAP[c.service_choice][i] \in DOMAIN services

\* C11: for every selection whose codes the catalog prices, every weight (0, below
\* 0.5 kg and above 100 kg included) and every delivery tier, estimate_price returns
\* clamp(weight, 0.5, 100) times the sum of the rates of the selection's codes, plus
\* 30% rounded to 2 decimals exactly when the tier is express, rounded to 2 decimals.
C11_EstimateFormula ==
    PricedCall(last)
        => last.result =
              Some(FormulaTotal(RateSum(services, SERVICE_MAP[last.service_choice]),
                                Clamped(last.weight_kg),
                                last.delivery_type = "express").total)

Abs(n) == IF n < 0 THEN 0 - n ELSE n

\* e paise is 1.30 times n paise, up to the two roundings to a paisa of the express
\* total (surcharge and result, half a paisa each) and the one of the standard total
\* (half a paisa, times 1.30): 1.65 paise
ThirtyPercentMore(e, n) == Abs(100 * e - 130 * n) <= 165

\* C12: for the same selection and weight, the express total of estimate_price and
\* the express total create_booking persists are 1.30 times the standard total, up to
\* the rounding to 2 decimals of the surcharge and of the results.
C12_ExpressIsThirtyPercentMore ==
    /\ (last.op = "estimate_price" /\ last.db_ok /\ last.delivery_type = "express")
          => ThirtyPercentMore(
                 Val(last.result),
                 Val(EstimatePrice(services, last.service_choice, last.weight_kg,
                                   "standard", TRUE)))
    /\ (last.op = "create_booking" /\ last.delivery_type = "express")
          => ThirtyPercentMore(
                 last.result.total_price,
                 BookingTotals(services, last.service_choice, last.weight_kg,
                               "standard").total_price)

\* An express total that is 1.30 times the standard one only up to rounding
C12_Witness ==
    /\ last.op = "create_booking"
    /\ last.delivery_type = "express"
    /\ last.result.express_fee > 0
    /\ 100 * last.result.total_price
          # 130 * BookingTotals(services, last.service_choice, last.weight_kg,
                                "standard").total_price

\* The codes a selection maps to, as a set
CodesOf(service_choice) ==
    { SERVICE_MAP[service_choice][i] : i \in 1..Len(SERVICE_MAP[service_choice]) }

\* The estimate of the last call does not exceed the one for the weight w2
NoCheaperAt(w2) ==
    Val(last.result)
        <= Val(EstimatePrice(services, last.service_choice, w2, last.delivery_type, TRUE))

\* The estimate of the last call does not exceed the one for the selection s2
NoCheaperFor(s2) ==
    Val(last.result)
        <= Val(EstimatePrice(services, s2, last.weight_kg, last.delivery_type, TRUE))

\* The last call is an estimate that reached the store
Estimated == last.op = "estimate_price" /\ last.db_ok

\* C13, in weight: with the catalog fixed, a larger weight never has a smaller
\* estimate.
MonotonicInWeight ==
    Estimated => \A w2 \in EstimateWeights : last.weight_kg <= w2 => NoCheaperAt(w2)

\* C13, in the selection: a selection that maps to a superset of the codes never has
\* a smaller estimate.
MonotonicInServices ==
    (Estimated /\ last.service_choice \in DOMAIN SERVICE_MAP)
        => \A s2 \in DOMAIN SERVICE_MAP :
              CodesOf(last.service_choice) \subseteq CodesOf(s2) => NoCheaperFor(s2)

\* C13: the estimate is monotonic non-decreasing in weight and in the set of
\* selected services.
C13_EstimateMonotonic == MonotonicInWeight /\ MonotonicInServices

\* The catalog has no entry for some code of the last call's selection
CodeMissing == \E code \in CodesOf(last.service_choice) : code \notin DOMAIN services

\* The catalog prices the default code
DefaultPriced == \A i \in 1..Len(DEFAULT_SERVICES) : DEFAULT_SERVICES[i] \in DOMAIN services

\* C14: when the catalog has no entry for a code of the selection, estimate_price
\* returns the price of the default code alone; when it has no entry for the default
\* code either, it returns None and no number.
C14_EstimateFallback ==
    (Estimated /\ last.service_choice \in DOMAIN SERVICE_MAP /\ CodeMissing)
        => IF DefaultPriced
           THEN last.result = EstimatePrice(services, "wash_only", last.weight_kg,
                                            last.delivery_type, TRUE)
           ELSE last.result = None

(***************************************************************************)
(* Order creation with an empty catalog or without an active outlet        *)
(***************************************************************************)
\* C15: with an empty pricing catalog no order is ever persisted (none priced at a
\* total of 0); the payment turn ends with an error reply and no session instead.
C15_NoOrderFromEmptyCatalog ==
    DOMAIN services = {}
        => /\ orders = <<>>
           /\ (last.branch = "payment" /\ Lower(last.raw) \in PaymentChoices)
                 => /\ last.reply.kind \in CreationErrorReplies
                    /\ last.chat \notin DOMAIN booking_state

(***************************************************************************)
(* Outlet assignment on its own: _assign_outlet_by_address applied to      *)
(* addresses, area maps and outlet tables                                  *)
(***************************************************************************)
\* Three outlets, each active or on maintenance
AssignOutlets ==
    { <<[id |-> "o1", outlet_name |-> "Kothrud Central", is_active |-> a1],
        [id |-> "o2", outlet_name |-> "Karve Road Point", is_active |-> a2],
        [id |-> "o3", outlet_name |-> "Baner Hub", is_active |-> a3]>> :
      a1 \in BOOLEAN, a2 \in BOOLEAN, a3 \in BOOLEAN }

\* Area maps: disjoint names, names one address can hold together, a name inside
\* another, and an area of an outlet the outlets table does not have
AssignAreas ==
    {AreaRows,
     <<[area_name |-> "Kothrud", outlet_id |-> "o1"],
       [area_name |-> "Karve Road", outlet_id |-> "o2"],
       [area_name |-> "Baner", outlet_id |-> "o3"]>>,
     <<[area_name |-> "Karve Road", outlet_id |-> "o2"],
       [area_name |-> "Karve", outlet_id |-> "o3"]>>,
     <<[area_name |-> "Kothrud", outlet_id |-> "o2"],
       [area_name |-> "Karve Road", outlet_id |-> "o3"]>>,
     <<[area_name |-> "Aundh", outlet_id |-> "o9"]>>}

AssignAddresses ==
    {"12 Kothrud", "Karve Road, Kothrud", "5 Baner Road", " KARVE road ", "3 Aundh", "Camp"}

AssignInit ==
    /\ NoTraffic
    /\ services = FullCatalog
    /\ outlets \in AssignOutlets
    /\ pune_areas \in AssignAreas
    /\ last = [op |-> "none"]

\* A call _assign_outlet_by_address(supabase, address); last records the call and
\* what it returned (outlet_id None: it raised "No active outlets found")
Assign(address, db_ok) ==
    /\ last' = [op |-> "assign_outlet", address |-> address, db_ok |-> db_ok,
                result |-> AssignOutletByAddress(outlets, pune_areas, address, db_ok)]
    /\ UNCHANGED <<booking_state, memory, refdata, tables, shown, inflight>>

AssignNext == \E address \in AssignAddresses, db_ok \in BOOLEAN : Assign(address, db_ok)

AssignSpec == AssignInit /\ [][AssignNext]_vars

\* The outlets of the areas whose name is in the address, letter case aside
MatchedOutlets(address) ==
    { pune_areas[i].outlet_id :
        i \in { j \in 1..Len(pune_areas) :
                  Contains(Lower(pune_areas[j].area_name), Lower(address)) } }

\* The ids of the outlets that are active, and of those on maintenance
ActiveIds == { outlets[i].id : i \in ActiveOutlets(outlets) }

MaintenanceIds == { outlets[i].id : i \in (1..Len(outlets)) \ ActiveOutlets(outlets) }

\* The last call is an assignment that could read the area map
Assigned == last.op = "assign_outlet" /\ last.db_ok

\* C16: when an area whose name is in the address has an active outlet, the
\* assignment returns the outlet of such an area, with no note.
C16_MatchedActiveOutletChosen ==
    (Assigned /\ MatchedOutlets(last.address) \cap ActiveIds # {})
        => /\ last.result.note = None
           /\ ~IsNone(last.result.outlet_id)
           /\ Val(last.result.outlet_id) \in MatchedOutlets(last.address) \cap ActiveIds

\* C17: when every area whose name is in the address has an outlet on maintenance
\* and some outlet is active, the assignment returns an active outlet that is none of
\* the matched ones, with a non-empty note.
C17_MaintenanceFallback ==
    (/\ Assigned
     /\ MatchedOutlets(last.address) # {}
     /\ MatchedOutlets(last.address) \subseteq MaintenanceIds
     /\ ActiveIds # {})
        => /\ ~IsNone(last.result.outlet_id)
           /\ Val(last.result.outlet_id) \in ActiveIds \ MatchedOutlets(last.address)
           /\ ~IsNone(last.result.note)
           /\ Val(last.result.note) # ""

\* An address in Kothrud, whose outlet is on maintenance, was given another outlet
C17_Witness ==
    /\ Assigned
    /\ last.address = "12 Kothrud"
    /\ "o1" \in MaintenanceIds
    /\ last.result.outlet_id \in {Some("o2"), Some("o3")}
    /\ ~IsNone(last.result.note)

\* C18: in a payment turn with a payment choice, taken while no outlet is active and
\* the customer could be read and written (so that the assignment runs), the reply
\* is the no-outlets message and not the generic apology, no order is persisted and
\* the chat has no session afterwards, whatever the address of the session.
C18_NoActiveOutlet ==
    [][\A chat_id \in Chats :
          (/\ AtStep(chat_id, "payment")
           /\ TurnOf(chat_id)
           /\ Lower(last'.raw) \in PaymentChoices
           /\ last'.fault \notin {"db_down", "setup"}
           /\ ActiveOutlets(outlets) = {})
             => /\ last'.reply.kind = "no_outlets"
                /\ orders' = orders
                /\ order_items' = order_items
                /\ order_status_logs' = order_status_logs
                /\ chat_id \notin DOMAIN booking_state']_vars

\* A payment turn found no active outlet: no order, no session
C18_Witness ==
    /\ last.branch = "payment"
    /\ last.reply.kind = "no_outlets"
    /\ ActiveOutlets(outlets) = {}
    /\ orders = <<>>
    /\ "c1" \notin DOMAIN booking_state

(***************************************************************************)
(* The address step                                                        *)
(***************************************************************************)
\* C19: the address "123 MG Road Mumbai" is never accepted: the session stays at the
\* address step and the reply shows the serviced areas again, whatever the area
\* table holds and whether or not it can be read.
C19_MumbaiAddressRejected ==
    (last.step = "address" /\ last.raw = "123 MG Road Mumbai")
        => /\ SessionStep(booking_state, last.chat) = "address"
           /\ last.reply.kind = "pune_only"

\* C20: at the address step the input "skip", in any letter case and with spaces
\* around it, changes neither the step nor a field of the session, and the reply asks
\* for the address again.
C20_SkipKeepsAddressStep ==
    [][\A chat_id \in Chats :
          (AtStep(chat_id, "address") /\ TurnOf(chat_id) /\ Lower(Strip(last'.raw)) = "skip")
             => /\ booking_state' = booking_state
                /\ last'.reply.kind = "address_needed"]_vars

\* "SKIP" was sent at the address step, which the session is still at
C20_Witness ==
    /\ last.step = "address"
    /\ last.raw = "SKIP"
    /\ last.reply.kind = "address_needed"
    /\ AtStep("c1", "address")
    /\ "address" \notin DOMAIN booking_state["c1"]

(***************************************************************************)
(* The parsers on their own: _parse_weight_from_message and                *)
(* _parse_home_textiles_weight applied to texts written from numbers       *)
(***************************************************************************)
\* Bare numbers in thousandths of a kilogram: 0.2, 0.499, 0.5, 0.504, 2.346, 2.5,
\* 40, 99.996, 100, 100.001 and 150 kg (none is a tie of the rounding to 2 decimals)
BareWeights == {200, 499, 500, 504, 2346, 2500, 40000, 99996, 100000, 100001, 150000}

\* Counts of shirts, pants, pieces and clothes in an itemized text
ShirtCounts == {0, 1, 2, 5, 600}

PantCounts == {0, 1, 2}

PieceCounts == {0, 3}

ClothesCounts == {0, 4}

\* Counts and units of a home-textiles text, and the textile types of a session
TextileCounts == {1, 2, 33, 34, 40, 100, 101}

TextileWords == {"bedsheet", "carpet", "curtain"}

TextileTypes == {"bedsheet", "carpet", "curtains"}

\* Three digits of a number below 1000
Pad3(n) == (IF n < 100 THEN "0" ELSE "") \o (IF n < 10 THEN "0" ELSE "") \o IntToStr(n)

\* The text of v thousandths of a kilogram, e.g. "2.346"
BareText(v) == IntToStr(v \div 1000) \o "." \o Pad3(v % 1000)

\* The text of an itemized message, e.g. "5 shirts 2 pants 3 pieces 4 clothes"
ItemText(shirts, pants, pieces, clothes) ==
    (IF shirts > 0 THEN Plural(shirts, "shirt") \o " " ELSE "")
    \o (IF pants > 0 THEN Plural(pants, "pant") \o " " ELSE "")
    \o (IF pieces > 0 THEN Plural(pieces, "piece") \o " " ELSE "")
    \o (IF clothes > 0 THEN IntToStr(clothes) \o " clothes" ELSE "")

ParseInit ==
    /\ NoTraffic
    /\ services = FullCatalog
    /\ outlets = BothOutlets
    /\ pune_areas = AreaRows
    /\ last = [op |-> "none"]

\* A call _parse_weight_from_message(raw) on a bare number
ParseBare(v) ==
    /\ last' = [op |-> "parse_bare", v |-> v, raw |-> BareText(v),
                result |-> ParseWeightFromMessage(BareText(v))]
    /\ UNCHANGED <<booking_state, memory, refdata, tables, shown, inflight>>

\* A call _parse_weight_from_message(raw) on an itemized text
ParseItemized(shirts, pants, pieces, clothes) ==
    /\ last' = [op |-> "parse_itemized", shirts |-> shirts, pants |-> pants,
                pieces |-> pieces, clothes |-> clothes,
                raw |-> ItemText(shirts, pants, pieces, clothes),
                result |-> ParseWeightFromMessage(ItemText(shirts, pants, pieces, clothes))]
    /\ UNCHANGED <<booking_state, memory, refdata, tables, shown, inflight>>

\* A call _parse_home_textiles_weight(raw, textile_type) on a counted text
ParseTextile(n, word, textile_type) ==
    /\ last' = [op |-> "parse_textile", n |-> n, word |-> word,
                textile_type |-> textile_type, raw |-> Plural(n, word),
                result |-> ParseHomeTextilesWeight(Plural(n, word), textile_type)]
    /\ UNCHANGED <<booking_state, memory, refdata, tables, shown, inflight>>

ParseNext ==
    \/ \E v \in BareWeights : ParseBare(v)
    \/ \E shirts \in ShirtCounts, pants \in PantCounts, pieces \in PieceCounts,
          clothes \in ClothesCounts :
           ParseItemized(shirts, pants, pieces, clothes)
    \/ \E n \in TextileCounts, word \in TextileWords, textile_type \in TextileTypes :
           ParseTextile(n, word, textile_type)

ParseSpec == ParseInit /\ [][ParseNext]_vars

\* The bare number of the last call is within [0.5, 100] kg
BareInRange == 10 * MIN_WEIGHT <= last.v /\ last.v <= 10 * MAX_WEIGHT

\* C23, as stated: a bare number within [0.5, 100] is returned as it is, with no
\* note; a bare number outside is not returned as a weight.
C23_BareNumberReturned ==
    last.op = "parse_bare"
        => IF BareInRange
           THEN /\ last.result.note = None
                /\ ~IsNone(last.result.kg)
                /\ 10 * Val(last.result.kg) = last.v
           ELSE last.result.kg = None

\* C23, amended: a bare number within [0.5, 100] is returned rounded to 2 decimals,
\* with no note; a bare number outside is not returned as a weight.
C23_BareNumberRounded ==
    last.op = "parse_bare"
        => IF BareInRange
           THEN last.result = [kg |-> Some(RoundDiv(last.v, 10)), note |-> None]
           ELSE last.result.kg = None

\* "2.346" was parsed to 2.35 kg
C23_Witness ==
    /\ last.op = "parse_bare"
    /\ last.raw = "2.346"
    /\ last.result.kg = Some(235)
    /\ last.result.note = None

\* The weight of the counted items of the last call, in hundredths of a kilogram
ItemizedSum ==
    last.shirts * WEIGHT_PER_SHIRT + last.pants * WEIGHT_PER_PANT
    + last.pieces * WEIGHT_PER_PIECE + last.clothes * WEIGHT_PER_PIECE

\* C24: for an itemized text the parser returns the sum over the matched categories
\* of count times per-unit weight, at most 100 kg, and fails when the sum is below
\* 0.5 kg.
C24_ItemizedSum ==
    last.op = "parse_itemized"
        => IF ItemizedSum < MIN_WEIGHT THEN last.result = ParseFail
           ELSE last.result.kg = Some(Min2(MAX_WEIGHT, ItemizedSum))

\* C25: every successful parse returns a weight within [0.5, 100] kg, and a counted
\* text whose weight exceeds 100 kg is parsed to 100 kg, not rejected.
C25_ParsedWeightInRange ==
    /\ (last.op # "none" /\ ~IsNone(last.result.kg))
          => MIN_WEIGHT <= Val(last.result.kg) /\ Val(last.result.kg) <= MAX_WEIGHT
    /\ (last.op = "parse_itemized" /\ ItemizedSum > MAX_WEIGHT)
          => last.result.kg = Some(MAX_WEIGHT)
    /\ (last.op = "parse_textile" /\ last.n * KG_PER_CARPET > MAX_WEIGHT
        /\ last.word = "carpet")
          => last.result.kg = Some(MAX_WEIGHT)

(***************************************************************************)
(* Rejected inputs of the quantity and payment steps, and the router       *)
(***************************************************************************)
QuantitySteps == {"shoe_quantity", "iron_quantity", "weight"}

\* Messages no quantity step can read as a weight between 0.5 and 100 kg
UnweighableInputs == {"abc", "0.2", "40 carpets"}

QuantityPrompts ==
    {"shoe_quantity_again", "iron_quantity_again", "weight_again", "textile_quantity_again",
     "weight_out_of_range"}

\* C21: in a quantity step (shoe quantity, iron quantity, weight, textile quantity)
\* an input that cannot be read as a weight within [0.5, 100] kg leaves the session
\* as it was, with no weight and no note stored, shows no estimate, and the reply
\* asks for the quantity again.
C21_UnparsableQuantityKeepsStep ==
    [][\A chat_id \in Chats :
          (/\ TurnOf(chat_id)
           /\ SessionStep(booking_state, chat_id) \in QuantitySteps
           /\ last'.raw \in UnweighableInputs)
              => /\ booking_state' = booking_state
                 /\ "weight_kg" \notin DOMAIN booking_state'[chat_id]
                 /\ "weight_note" \notin DOMAIN booking_state'[chat_id]
                 /\ shown' = shown
                 /\ last'.reply.kind \in QuantityPrompts
                 /\ last'.reply.bill = None]_vars

\* "40 carpets", 120 kg, was refused at the textile quantity step
C21_Witness ==
    /\ last.step = "weight"
    /\ last.raw = "40 carpets"
    /\ last.reply.kind = "weight_out_of_range"
    /\ AtStep(last.chat, "weight")
    /\ booking_state[last.chat]["service_choice"] = "home_textiles"
    /\ "weight_kg" \notin DOMAIN booking_state[last.chat]

\* C22: at the payment step an input that is none of the payment choices leaves the
\* session as it was, creates nothing and is answered with the payment prompt; a
\* payment choice ends the payment step.
C22_InvalidPaymentKeepsStep ==
    [][\A chat_id \in Chats :
          (AtStep(chat_id, "payment") /\ TurnOf(chat_id))
              => IF Lower(last'.raw) \in PaymentChoices
                 THEN ~AtStep(chat_id, "payment")'
                 ELSE /\ booking_state' = booking_state
                      /\ "payment_method" \notin DOMAIN booking_state'[chat_id]
                      /\ tables' = tables
                      /\ last'.reply.kind = "payment_again"]_vars

\* "9" was refused at the payment step
C22_Witness ==
    /\ last.step = "payment"
    /\ last.raw = "9"
    /\ last.reply.kind = "payment_again"
    /\ AtStep(last.chat, "payment")
    /\ Len(orders) = 0

\* The router tests that come before the order-related one
EarlierThanOrderQuery(message) ==
    \/ message \in {"/start", "start"}
    \/ IsGreetingOrCasual(message)
    \/ IsShowMyQuestionsIntent(message)

C27_BookKeywordStartsBooking ==
    (/\ last.chat \in Chats
     /\ last.step = ""
     /\ ContainsAny(BookKeywords, Lower(last.raw)))
        => /\ AtStep(last.chat, "name")
           /\ last.reply.kind = "ask_name"

\* C28: a message of a chat that has a session is handled by the step the session is
\* at, whatever keywords it has, and never by a branch of the router.
C28_SessionConsumesMessage ==
    [][\A chat_id \in Chats :
          (TurnOf(chat_id) /\ chat_id \in DOMAIN booking_state)
              => /\ last'.branch = IF AtStep(chat_id, "awaiting_rating") THEN "rating"
                                   ELSE booking_state[chat_id].step
                 /\ last'.branch \notin RouterBranches]_vars

\* "track my order" was handled by the payment step
C28_Witness ==
    /\ last.step = "payment"
    /\ last.raw = "track my order"
    /\ last.branch = "payment"
    /\ last.reply.kind = "payment_again"

(***************************************************************************)
(* The webhook (main.py): requests in flight on the event loop, the turn   *)
(* of the payment step taken store call by store call                      *)
(***************************************************************************)
WebhookChats == {"c1", "c2"}

\* Phone numbers of the sessions; the first two have the same digits
WebhookPhones == {"98765 10001", "9876510001", "91234 56789"}

\* Texts of the updates
WebhookTexts == {"upi", "9"}

\* Largest number of updates delivered
MaxRequests == 3

\* A session that has reached the payment step
PaymentSession(phone) ==
    [step |-> "payment", name |-> "Asha Rao", address |-> "12 Kothrud", phone |-> phone,
     delivery_type |-> "standard", service_choice |-> "wash_only", weight_kg |-> 250,
     weight_note |-> None, pickup_type |-> "self_drop", customer_instructions |-> ""]

\* A row inserted by seed_dummy_data.py
SeededCustomer ==
    [full_name |-> "Customer 1", phone_number |-> "9876510001", customer_type |-> "student",
     address |-> "Pune", telegram_chat_id |-> "", total_orders |-> 0]

\* A row inserted by a create_booking of chat c1 that found no outlet
EarlierCustomer ==
    [full_name |-> "Asha Rao", phone_number |-> "9123456789", customer_type |-> "professional",
     address |-> "12 Kothrud", telegram_chat_id |-> "c1", total_orders |-> 0]

WebhookInit ==
    /\ \E p1 \in WebhookPhones, p2 \in WebhookPhones :
          booking_state = [c \in WebhookChats |-> PaymentSession(IF c = "c1" THEN p1 ELSE p2)]
    /\ memory = [c \in WebhookChats |-> MAX_MESSAGES_PER_CHAT]
    /\ services = FullCatalog
    /\ outlets = BothOutlets
    /\ pune_areas = AreaRows
    /\ customers \in {<<>>, <<SeededCustomer>>, <<EarlierCustomer>>}
    /\ orders = <<>>
    /\ order_items = <<>>
    /\ order_status_logs = <<>>
    /\ feedback = <<>>
    /\ last = [op |-> "none"]
    /\ shown = [c \in WebhookChats |-> None]
    /\ inflight = <<>>

\* Positions of a request inside handle_message
Handling == {"read", "popped", "selected", "persisted"}

\* Seeded fault: the handler gives the event loop back at each store call
RunnableAlways(t) == TRUE

\* main.py:49 calls handle_message without await: from its start to its return the
\* event loop runs no other request
Runnable(t) == \A u \in DOMAIN inflight : u # t => inflight[u].pc \notin Handling

\* memory_append(chat_id, raw, reply)
Appended(chat_id) == [memory EXCEPT ![chat_id] = Min2(@ + 2, MAX_MESSAGES_PER_CHAT)]

\* The request t moves to pc, its fields changed as in task
Moved(t, task, pc, op) ==
    /\ inflight' = [inflight EXCEPT ![t] = [task EXCEPT !.pc = pc]]
    /\ last' = [op |-> op]

\* Telegram posts an update; the request waits for its body (main.py:36)
Deliver(chat_id, text) ==
    /\ Len(inflight) < MaxRequests
    /\ inflight' = Append(inflight, [chat |-> chat_id, text |-> text, pc |-> "json",
                                     seen |-> None, found |-> 0, order_id |-> 0])
    /\ last' = [op |-> "deliver"]
    /\ UNCHANGED <<booking_state, memory, refdata, tables, shown>>

\* main.py:49 and chatbot_service.py:266-286: handle_message starts and reads the
\* session. Without a session the router answers; a session that waits for the rating
\* is removed and answered; a session at the payment step is kept for the next step.
ReadSession(t) ==
    LET task == inflight[t]
        chat_id == task.chat
        raw == Strip(task.text)
        rating == IntOf(raw)
        order_id == Get(booking_state[chat_id], "order_id", 0)
        recordable == /\ Lower(raw) \notin RatingSkips
                      /\ ~IsNone(rating)
                      /\ IsRecordableRating(Val(rating), order_id)
    IN  /\ t \in DOMAIN inflight
        /\ task.pc = "json"
        /\ Runnable(t)
        /\ IF ~HasSession(chat_id)
           THEN /\ booking_state' = IF RouteOf(task.text) = "book"
                                    THEN Put(booking_state, chat_id, [step |-> "name"])
                                    ELSE booking_state
                /\ memory' = Appended(chat_id)
                /\ Moved(t, task, "send", "router")
                /\ UNCHANGED <<refdata, tables, shown>>
           ELSE IF AtStep(chat_id, "awaiting_rating")
           THEN /\ booking_state' = Pop(booking_state, chat_id)
                /\ feedback' = IF recordable
                               THEN Append(feedback, [order_id |-> order_id, rating |-> Val(rating)])
                               ELSE feedback
                /\ memory' = Appended(chat_id)
                /\ Moved(t, task, "send", "rating")
                /\ UNCHANGED <<refdata, customers, orders, order_items, order_status_logs, shown>>
           ELSE /\ Moved(t, [task EXCEPT !.seen = Some(booking_state[chat_id])], "read", "read")
                /\ UNCHANGED <<booking_state, memory, refdata, tables, shown>>

\* chatbot_service.py:589-609: the payment choice. A text that is no choice writes
\* the session back and asks again; a choice is stored in the session, and the
\* session is removed before create_booking is called.
ChoosePayment(t) ==
    LET task == inflight[t]
        chat_id == task.chat
        state == Val(task.seen)
        payment_method == PaymentMethodOf(Strip(Lower(Strip(task.text))))
    IN  /\ t \in DOMAIN inflight
        /\ task.pc = "read"
        /\ Runnable(t)
        /\ IF IsNone(payment_method)
           THEN /\ booking_state' = Put(booking_state, chat_id, state)
                /\ memory' = Appended(chat_id)
                /\ Moved(t, task, "send", "payment_again")
           ELSE /\ booking_state' = SessionsForCreation(booking_state, chat_id)
                /\ memory' = memory
                /\ Moved(t, [task EXCEPT !.seen = Some(Put(state, "payment_method", Val(payment_method)))],
                         "popped", "pop")
        /\ UNCHANGED <<refdata, tables, shown>>

\* booking_service.py:251-265: create_booking looks the customer up
SelectCustomer(t) ==
    LET task == inflight[t]
        phone_clean == PhoneClean(task.chat, Val(task.seen)["phone"])
    IN  /\ t \in DOMAIN inflight
        /\ task.pc = "popped"
        /\ Runnable(t)
        /\ Moved(t, [task EXCEPT !.found = FindCustomer(customers, phone_clean, task.chat)],
                 "selected", "select")
        /\ UNCHANGED <<booking_state, memory, refdata, tables, shown>>

\* booking_service.py:267-395: the customer is updated or inserted as the lookup
\* said, and the order, its items and its status log are inserted
Persist(t) ==
    LET task == inflight[t]
        state == Val(task.seen)
        a == BookingArgs(state, state["payment_method"])
        phone_clean == PhoneClean(task.chat, a.phone)
        custs1 == UpsertFound(customers, task.found, task.chat, a.full_name, a.address, phone_clean)
        customer_id == IF task.found # 0 THEN task.found ELSE Len(custs1)
        assigned == AssignOutletByAddress(outlets, pune_areas, a.address, TRUE)
        order_id == Len(orders) + 1
        row == OrderRow(NextOrderNumber(order_id), customer_id, Val(assigned.outlet_id), a)
    IN  /\ t \in DOMAIN inflight
        /\ task.pc = "selected"
        /\ Runnable(t)
        /\ customers' = [custs1 EXCEPT ![customer_id].total_orders = @ + 1]
        /\ orders' = Append(orders, row)
        /\ order_items' = order_items \o ItemRows(order_id, BookingRows(services, a.service_choice),
                                                  row.total_weight_kg)
        /\ order_status_logs' = Append(order_status_logs, [order_id |-> order_id, status |-> "Received"])
        /\ Moved(t, [task EXCEPT !.order_id = order_id], "persisted", "persist")
        /\ UNCHANGED <<booking_state, memory, refdata, feedback, shown>>

\* chatbot_service.py:689 and 255-259: the session that waits for the rating is
\* stored, the reply is appended to the conversation memory, handle_message returns
WriteSession(t) ==
    LET task == inflight[t]
    IN  /\ t \in DOMAIN inflight
        /\ task.pc = "persisted"
        /\ Runnable(t)
        /\ booking_state' = Put(booking_state, task.chat,
                                RatingSession(Val(task.seen), [order_id |-> task.order_id]))
        /\ memory' = Appended(task.chat)
        /\ Moved(t, task, "send", "write")
        /\ UNCHANGED <<refdata, tables, shown>>

\* main.py:50: the reply is sent and the request ends
SendReply(t) ==
    LET task == inflight[t]
    IN  /\ t \in DOMAIN inflight
        /\ task.pc = "send"
        /\ Runnable(t)
        /\ Moved(t, task, "done", "send")
        /\ UNCHANGED <<booking_state, memory, refdata, tables, shown>>

WebhookNext ==
    \/ \E chat_id \in WebhookChats, text \in WebhookTexts : Deliver(chat_id, text)
    \/ \E t \in 1..MaxRequests : ReadSession(t)
    \/ \E t \in 1..MaxRequests : ChoosePayment(t)
    \/ \E t \in 1..MaxRequests : SelectCustomer(t)
    \/ \E t \in 1..MaxRequests : Persist(t)
    \/ \E t \in 1..MaxRequests : WriteSession(t)
    \/ \E t \in 1..MaxRequests : SendReply(t)

WebhookSpec == WebhookInit /\ [][WebhookNext]_vars

\* C29: whatever bookings were made, by whichever chats and however their requests
\* arrived, no two customer rows have the same phone number.
C29_OneCustomerPerPhone ==
    \A i \in 1..Len(customers), j \in 1..Len(customers) :
        customers[i].phone_number = customers[j].phone_number => i = j

\* Two chats whose sessions gave "98765 10001" and "9876510001" have both booked, the
\* second request delivered before the first was answered; there is one customer row,
\* with both orders.
C29_Witness ==
    /\ Len(inflight) = 2
    /\ inflight[1].chat # inflight[2].chat
    /\ inflight[1].pc = "done" /\ inflight[2].pc = "done"
    /\ Val(inflight[1].seen)["phone"] # Val(inflight[2].seen)["phone"]
    /\ Len(orders) = 2
    /\ orders[1].customer_id = orders[2].customer_id
    /\ Len(customers) = 1
    /\ customers[1].total_orders = 2

\* C30: of the requests of one chat at most one is inside handle_message, and the
\* session it read is the session the chat has until it removes or rewrites it.
C30_OneTurnInFlight ==
    \A t \in DOMAIN inflight :
        /\ inflight[t].pc \in Handling
              => \A u \in DOMAIN inflight :
                     (u # t /\ inflight[u].chat = inflight[t].chat) => inflight[u].pc \notin Handling
        /\ inflight[t].pc = "read"
              => /\ HasSession(inflight[t].chat)
                 /\ booking_state[inflight[t].chat] = Val(inflight[t].seen)
        /\ inflight[t].pc \in {"popped", "selected", "persisted"}
              => ~HasSession(inflight[t].chat)

\* A second update of the chat is waiting while the first one is between the lookup
\* of the customer and the insert
C30_Witness ==
    \E t \in DOMAIN inflight, u \in DOMAIN inflight :
        /\ t # u
        /\ inflight[t].chat = inflight[u].chat
        /\ inflight[t].pc = "selected"
        /\ inflight[u].pc = "json"

(***************************************************************************)
(* Two chats talking to the bot in turn                                    *)
(***************************************************************************)
PairChats == {"c1", "c2"}

\* The messages of the two chats: one booking conversation each, through any of the
\* four quantity sub-flows and either pickup mode
PairInputsAt(step) ==
    CASE step = "" -> {"Book", "thanks a lot"}
      [] step = "name" -> {"Asha Rao"}
      [] step = "address" -> {"12 Kothrud"}
      [] step = "phone" -> {"98765 43210"}
      [] step = "delivery" -> {"1"}
      [] step = "service" -> {"2", "4", "5", "6"}
      [] step = "shoe_quantity" -> {"2"}
      [] step = "home_textiles_type" -> {"2"}
      [] step = "iron_quantity" -> {"5"}
      [] step = "weight" -> {"40", "abc"}
      [] step = "pickup_type" -> {"1", "2"}
      [] step = "home_address" -> {"12 Baner Road"}
      [] step = "pickup_datetime" -> {"17 Feb 11am"}
      [] step = "delivery_datetime" -> {"17 Feb 6pm"}
      [] step = "instructions" -> {"no"}
      [] step = "payment" -> {"upi", "9"}
      [] step = "awaiting_rating" -> {"5"}

PairInit ==
    /\ booking_state = [c \in {} |-> 0]
    /\ memory = [c \in PairChats |-> 0]
    /\ services = FullCatalog
    /\ outlets = BothOutlets
    /\ pune_areas = AreaRows
    /\ customers = <<>>
    /\ orders = <<>>
    /\ order_items = <<>>
    /\ order_status_logs = <<>>
    /\ feedback = <<>>
    /\ last = [chat |-> "", raw |-> "", fault |-> "none", branch |-> "", step |-> "", reply |-> Reply("")]
    /\ shown = [c \in PairChats |-> None]
    /\ inflight = <<>>

PairNext ==
    \/ \E chat_id \in PairChats, text \in PairInputsAt("awaiting_rating") : AwaitingRating(chat_id, text, "none")
    \/ \E chat_id \in PairChats, text \in PairInputsAt("name") : StepName(chat_id, text, "none")
    \/ \E chat_id \in PairChats, text \in PairInputsAt("address") : StepAddress(chat_id, text, "none")
    \/ \E chat_id \in PairChats, text \in PairInputsAt("phone") : StepPhone(chat_id, text, "none")
    \/ \E chat_id \in PairChats, text \in PairInputsAt("delivery") : StepDelivery(chat_id, text, "none")
    \/ \E chat_id \in PairChats, text \in PairInputsAt("service") : StepService(chat_id, text, "none")
    \/ \E chat_id \in PairChats, text \in PairInputsAt("shoe_quantity") : StepShoeQuantity(chat_id, text, "none")
    \/ \E chat_id \in PairChats, text \in PairInputsAt("home_textiles_type") : StepHomeTextilesType(chat_id, text, "none")
    \/ \E chat_id \in PairChats, text \in PairInputsAt("iron_quantity") : StepIronQuantity(chat_id, text, "none")
    \/ \E chat_id \in PairChats, text \in PairInputsAt("weight") : StepWeight(chat_id, text, "none")
    \/ \E chat_id \in PairChats, text \in PairInputsAt("pickup_type") : StepPickupType(chat_id, text, "none")
    \/ \E chat_id \in PairChats, text \in PairInputsAt("home_address") : StepHomeAddress(chat_id, text, "none")
    \/ \E chat_id \in PairChats, text \in PairInputsAt("pickup_datetime") : StepPickupDatetime(chat_id, text, "none")
    \/ \E chat_id \in PairChats, text \in PairInputsAt("delivery_datetime") : StepDeliveryDatetime(chat_id, text, "none")
    \/ \E chat_id \in PairChats, text \in PairInputsAt("instructions") : StepInstructions(chat_id, text, "none")
    \/ \E chat_id \in PairChats, text \in PairInputsAt("payment") : StepPayment(chat_id, text, "none")
    \/ \E chat_id \in PairChats, text \in PairInputsAt("") : Router(chat_id, text, "none")

PairSpec == PairInit /\ [][PairNext]_vars

\* C31: a turn of one chat leaves the session and the conversation memory of every
\* other chat as they were, whatever steps the two chats are at.
C31_OtherChatsUntouched ==
    [][\A a \in PairChats, b \in PairChats :
          (TurnOf(a) /\ b # a)
              => /\ HasSession(b)' = HasSession(b)
                 /\ HasSession(b) => booking_state'[b] = booking_state[b]
                 /\ memory'[b] = memory[b]]_vars

\* A chat has completed its booking while the other one stayed at the weight step
C31_Witness ==
    /\ last.chat = "c1"
    /\ last.step = "payment"
    /\ last.reply.kind = "booking_confirmed"
    /\ AtStep("c1", "awaiting_rating")
    /\ AtStep("c2", "weight")
    /\ memory["c2"] > 0

(***************************************************************************)
(* The delivery tier of an order                                           *)
(***************************************************************************)
\* C32: an order created from an express session has priority express and is
\* expected in 24 hours, one from a standard session has priority normal and is
\* expected in 48 hours; the reply "1" at the delivery step makes the session
\* standard.
C32_TierOfOrder ==
    [][\A chat_id \in Chats :
          /\ (AtStep(chat_id, "delivery") /\ TurnOf(chat_id) /\ Lower(last'.raw) = "1")
                => booking_state'[chat_id]["delivery_type"] = "standard"
          /\ (AtStep(chat_id, "payment") /\ TurnOf(chat_id) /\ OrderPersisted)
                => LET order == orders'[Len(orders')]
                       tier == booking_state[chat_id]["delivery_type"]
                   IN  /\ tier \in {"standard", "express"}
                       /\ tier = "express"
                             => order.priority_type = "express" /\ order.delivery_hours = 24
                       /\ tier = "standard"
                             => order.priority_type = "normal" /\ order.delivery_hours = 48]_vars

\* An express order was confirmed
C32_Witness ==
    /\ last.step = "payment"
    /\ last.reply.kind = "booking_confirmed"
    /\ orders[Len(orders)].priority_type = "express"
    /\ orders[Len(orders)].delivery_hours = 24

(***************************************************************************)
(* Tracking by order number: the router on messages that are an order code *)
(***************************************************************************)
\* The orders of the table and the codes of the messages, as indices of UuidHex
TrackCodes == 1..Len(UuidHex)

\* What a message puts before the eight characters, and their letter case
TrackPrefixes == {"ORD-", "ord-", "Ord-", "ORD", "ord", ""}

TrackCases == {"upper", "lower", "mixed"}

\* Largest number of order-code messages of a chat
MaxTrackTurns == 1

\* The eight characters of the k-th order number in a letter case
CodeIn(k, case) ==
    LET hex == SubSeq(UuidHex[k], 1, 8)
    IN  CASE case = "upper" -> Upper(hex)
          [] case = "lower" -> hex
          [] case = "mixed" -> Upper(SubSeq(hex, 1, 4)) \o SubSeq(hex, 5, 8)

\* One order of chat c1, created earlier
TrackInit ==
    /\ booking_state = [c \in {} |-> 0]
    /\ memory = [c \in Chats |-> 0]
    /\ services = FullCatalog
    /\ outlets = BothOutlets
    /\ pune_areas = AreaRows
    /\ customers = <<[EarlierCustomer EXCEPT !.total_orders = 1]>>
    /\ \E k \in TrackCodes :
          orders = <<OrderRow(NextOrderNumber(k), 1, "o1",
                              BookingArgs(PaymentSession("91234 56789"), "upi"))>>
    /\ order_items = ItemRows(1, BookingRows(services, "wash_only"), 250)
    /\ order_status_logs = <<[order_id |-> 1, status |-> "Received"]>>
    /\ feedback = <<>>
    /\ last = [op |-> "none"]
    /\ shown = [c \in Chats |-> None]
    /\ inflight = <<>>

\* Lines 700-778 on a message that is an order code: the router's branch and reply
TrackByCode(chat_id, k, prefix, case, rag_answers) ==
    LET text == prefix \o CodeIn(k, case)
        message == Lower(Strip(Strip(text)))
        route == RouteOf(text)
        reply == CASE route = "order_number" ->
                        OrderNumberReply(Val(ExtractOrderNumber(message, text)), TRUE)
                   [] route = "track" -> TrackReply(chat_id, TRUE)
                   [] route = "pricing" -> Reply("rag_reply")
                   [] route = "fallback" -> IF rag_answers THEN Reply("rag_reply") ELSE Reply("menu")
    IN  /\ ~HasSession(chat_id)
        /\ memory[chat_id] < 2 * MaxTrackTurns
        /\ route \in {"order_number", "track", "pricing", "fallback"}
        /\ last' = [op |-> "track", chat |-> chat_id, code |-> k, prefix |-> prefix,
                    case |-> case, raw |-> text, route |-> route, reply |-> reply]
        /\ memory' = [memory EXCEPT ![chat_id] = Min2(@ + 2, MAX_MESSAGES_PER_CHAT)]
        /\ UNCHANGED <<booking_state, refdata, tables, shown, inflight>>

TrackNext ==
    \E chat_id \in Chats, k \in TrackCodes, prefix \in TrackPrefixes, case \in TrackCases,
       rag_answers \in BOOLEAN :
        TrackByCode(chat_id, k, prefix, case, rag_answers)

TrackSpec == TrackInit /\ [][TrackNext]_vars

\* C33: a message that is the number of an existing order, in any letter case, with
\* or without "ORD-" and with or without the hyphen, is answered with the status of
\* that order.
C33_CodeResolvesOrder ==
    (last.op = "track" /\ orders[1].order_number = NextOrderNumber(last.code))
        => /\ last.route = "order_number"
           /\ last.reply.kind = "order_status"
           /\ last.reply.order_number = orders[1].order_number

(***************************************************************************)
(* The ironing quantity step on piece counts and on weights                *)
(***************************************************************************)
IroningServices == {"premium_iron", "press_iron", "steam_iron"}

\* Weights a reply may give, in hundredths of a kilogram, and piece counts
IronWeights == {50, 70, 200, 250, 1250, 10000}

IronPieces == {1, 5, 100}

\* A weight as a user writes it: "2" for 2 kg, "2.5" for 2.5 kg
WeightText(w) == IF w % 100 = 0 THEN IntToStr(w \div 100) ELSE KgRepr(w)

\* The replies tried at the step
IronTexts ==
    { WeightText(w) \o " kg" : w \in IronWeights }
    \cup { WeightText(w) : w \in { x \in IronWeights : x % 100 # 0 } }
    \cup { IntToStr(n) : n \in IronPieces }
    \cup { "abc" }

\* A session that has chosen an ironing service
IronSession(service_choice, delivery_type) ==
    [step |-> "iron_quantity", name |-> "Asha Rao", address |-> "12 Kothrud",
     phone |-> "98765 43210", delivery_type |-> delivery_type, service_choice |-> service_choice]

IronInit ==
    /\ \E service_choice \in IroningServices, delivery_type \in {"standard", "express"} :
          booking_state = [c \in Chats |-> IronSession(service_choice, delivery_type)]
    /\ memory = [c \in Chats |-> 0]
    /\ services = FullCatalog
    /\ outlets = BothOutlets
    /\ pune_areas = AreaRows
    /\ customers = <<>>
    /\ orders = <<>>
    /\ order_items = <<>>
    /\ order_status_logs = <<>>
    /\ feedback = <<>>
    /\ last = [chat |-> "", raw |-> "", fault |-> "none", branch |-> "", step |-> "", reply |-> Reply("")]
    /\ shown = [c \in Chats |-> None]
    /\ inflight = <<>>

IronNext == \E chat_id \in Chats, text \in IronTexts : StepIronQuantity(chat_id, text, "none")

IronSpec == IronInit /\ [][IronNext]_vars

\* The session of the last turn holds the weight w
IronWeightStored(w) ==
    /\ AtStep(last.chat, "pickup_type")
    /\ booking_state[last.chat]["weight_kg"] = w

\* C34: at the ironing quantity step a weight in kilograms ("2 kg", "2.5") within
\* [0.5, 100] is stored as that weight; a bare whole number is a piece count and is
\* stored at 0.2 kg per piece (at least 0.5 kg).
C34_IronWeightInKg ==
    last.step = "iron_quantity"
        => /\ \A w \in IronWeights :
                 (\/ last.raw = WeightText(w) \o " kg"
                  \/ (w % 100 # 0 /\ last.raw = WeightText(w)))
                     => IronWeightStored(w)
           /\ \A n \in IronPieces :
                 last.raw = IntToStr(n)
                     => IronWeightStored(Max2(MIN_WEIGHT, n * WEIGHT_PER_IRON_PIECE))

(***************************************************************************)
(* What a failed order creation leaves in the store                        *)
(***************************************************************************)
\* C36: when the reply of a payment turn says that the booking could not be
\* created, the turn has added no order, no order item and no status-log entry.
C36_FailedCreationPersistsNothing ==
    [][\A chat_id \in Chats :
          (/\ AtStep(chat_id, "payment")
           /\ TurnOf(chat_id)
           /\ last'.reply.kind \in CreationErrorReplies)
              => /\ orders' = orders
                 /\ order_items' = order_items
                 /\ order_status_logs' = order_status_logs]_vars

(***************************************************************************)
(* create_booking called again and again, by two chats with three phones   *)
(***************************************************************************)
\* Largest number of bookings made
MaxBookings == 3

BookingNames == {"Asha Rao", "Ravi K"}

BookingAddresses == {"12 Kothrud", "5 Baner Road"}

BookingInit ==
    /\ booking_state = [c \in {} |-> 0]
    /\ memory = [c \in Chats |-> 0]
    /\ services = FullCatalog
    /\ outlets = BothOutlets
    /\ pune_areas = AreaRows
    /\ customers \in {<<>>, <<SeededCustomer>>}
    /\ orders = <<>>
    /\ order_items = <<>>
    /\ order_status_logs = <<>>
    /\ feedback = <<>>
    /\ last = [op |-> "none"]
    /\ shown = [c \in Chats |-> None]
    /\ inflight = <<>>

\* create_booking(telegram_chat_id, ...) with the fields of a session that has chosen
\* its payment
Book(telegram_chat_id, phone, full_name, address) ==
    LET state == [PaymentSession(phone) EXCEPT !.name = full_name, !.address = address]
        r == CreateBooking(telegram_chat_id, BookingArgs(state, "upi"), "none")
    IN  /\ Len(orders) < MaxBookings
        /\ customers' = r.db.customers
        /\ orders' = r.db.orders
        /\ order_items' = r.db.order_items
        /\ order_status_logs' = r.db.order_status_logs
        /\ last' = [op |-> "book", chat |-> telegram_chat_id, phone |-> phone,
                    full_name |-> full_name, address |-> address, result |-> r.result]
        /\ UNCHANGED <<booking_state, memory, refdata, feedback, shown, inflight>>

BookingNext ==
    \E telegram_chat_id \in WebhookChats, phone \in WebhookPhones, full_name \in BookingNames,
       address \in BookingAddresses :
        Book(telegram_chat_id, phone, full_name, address)

BookingSpec == BookingInit /\ [][BookingNext]_vars

\* The customer rows with a phone number, and those attached to a chat
RowsWithPhone(phone_number) ==
    { i \in 1..Len(customers) : customers[i].phone_number = phone_number }

RowsOfChat(telegram_chat_id) ==
    { i \in 1..Len(customers) : customers[i].telegram_chat_id = telegram_chat_id }

\* The booking just made reused the customer row i: the row has the chat, the name
\* and the address of the booking, no row was added, and the order is the row's
Reused(i) ==
    /\ Len(customers') = Len(customers)
    /\ customers'[i].telegram_chat_id = last'.chat
    /\ customers'[i].full_name = last'.full_name
    /\ customers'[i].address = last'.address
    /\ customers'[i].phone_number = customers[i].phone_number
    /\ orders'[Len(orders')].customer_id = i
    /\ \A j \in 1..Len(customers) : j # i => customers'[j] = customers[j]

\* The booking just made added a customer row with its phone, chat, name and address
Created ==
    /\ Len(customers') = Len(customers) + 1
    /\ customers'[Len(customers')].phone_number = PhoneClean(last'.chat, last'.phone)
    /\ customers'[Len(customers')].telegram_chat_id = last'.chat
    /\ customers'[Len(customers')].full_name = last'.full_name
    /\ customers'[Len(customers')].address = last'.address
    /\ orders'[Len(orders')].customer_id = Len(customers')
    /\ \A j \in 1..Len(customers) : customers'[j] = customers[j]

AskedFields ==
    {"name", "address", "phone", "delivery_type", "service_choice", "weight_kg", "pickup_type"}

\* C38: a session at the payment step has its name, address, phone, delivery tier,
\* service selection, weight and pickup mode set, and its pickup address when the
\* pickup mode is home pickup; the name, the address, the phone and the pickup
\* address are not empty, and the tier, the service and the pickup mode are values
\* the steps offer.
C38_PaymentSessionComplete ==
    \A chat_id \in Chats :
        AtStep(chat_id, "payment")
            => LET state == booking_state[chat_id]
               IN  /\ AskedFields \subseteq DOMAIN state
                   /\ state["name"] # "" /\ state["address"] # "" /\ state["phone"] # ""
                   /\ state["delivery_type"] \in {"standard", "express"}
                   /\ state["pickup_type"] \in {"self_drop", "home_pickup"}
                   /\ state["weight_kg"] > 0
                   /\ state["pickup_type"] = "home_pickup"
                          => /\ "pickup_address" \in DOMAIN state
                             /\ state["pickup_address"] # ""

\* A session at the payment step that chose home pickup
C38_Witness ==
    \E chat_id \in Chats :
        /\ AtStep(chat_id, "payment")
        /\ booking_state[chat_id]["pickup_type"] = "home_pickup"
        /\ booking_state[chat_id]["service_choice"] # "wash_only"
        /\ booking_state[chat_id]["delivery_type"] = "express"

(***************************************************************************)
(* The intent router applied to messages of chats without a session        *)
(***************************************************************************)
RouterPrefixes == {"", "please ", "Mera "}

RouterCores ==
    {"hi", "what did i ask", "my booking", "book", "laundry bhejo", "ORD-678D45BC",
     "ord1234abcd", "track", "status", "where is my order", "kahan hai", "Track it",
     "price", "express", "delivery time", "xyz"}

RouterSuffixes == {"", " now", "?"}

\* The messages routed
RouterTexts ==
    { prefix \o core \o suffix :
        prefix \in RouterPrefixes, core \in RouterCores, suffix \in RouterSuffixes }

\* The branches of the router after /start, in the order of the code
RouterTests ==
    {"greeting", "show_questions", "order_query", "book", "order_number", "track", "pricing",
     "fallback"}

RouterInit ==
    /\ booking_state = [c \in {} |-> 0]
    /\ memory = [c \in Chats |-> 0]
    /\ services = FullCatalog
    /\ outlets = BothOutlets
    /\ pune_areas = AreaRows
    /\ customers = <<>>
    /\ orders = <<>>
    /\ order_items = <<>>
    /\ order_status_logs = <<>>
    /\ feedback = <<>>
    /\ last = [op |-> "none"]
    /\ shown = [c \in Chats |-> None]
    /\ inflight = <<>>

\* Lines 700-769: the branch that dispatches a message of a chat without a session
RouteMessage(chat_id, text) ==
    /\ ~HasSession(chat_id)
    /\ last' = [op |-> "route", chat |-> chat_id, raw |-> text, route |-> RouteOf(text)]
    /\ UNCHANGED <<booking_state, memory, refdata, customers, orders, order_items,
                   order_status_logs, feedback, shown, inflight>>

RouterNext == \E chat_id \in Chats, text \in RouterTexts : RouteMessage(chat_id, text)

RouterSpec == RouterInit /\ [][RouterNext]_vars

\* C39: each branch of the router dispatches some message: for greeting, recent
\* questions, order-related text, booking start, embedded order code, generic
\* tracking keywords, pricing/support keywords and the fallback there is a message
\* that the branch dispatches and no earlier branch does.
C39_EveryBranchDispatches ==
    \A route \in RouterTests :
        \E chat_id \in Chats, text \in RouterTexts :
            ~HasSession(chat_id) /\ RouteOf(text) = route

\* Every branch except the generic tracking one dispatches some message
OtherBranchesDispatch ==
    \A route \in RouterTests \ {"track"} :
        \E chat_id \in Chats, text \in RouterTexts :
            ~HasSession(chat_id) /\ RouteOf(text) = route

\* Every tracking keyword has an order-related keyword inside it, so a message with a
\* tracking keyword in it is order-related; no message routed took the tracking branch
TrackingShadowed ==
    /\ \A k \in TrackKeywords : ContainsAny(OrderKeywords, k)
    /\ last.op = "route" => last.route # "track"

(***************************************************************************)
(* Conversations in which every message is one the prompt of the step asks *)
(* for                                                                     *)
(***************************************************************************)
\* The inputs the prompts offer at each step
ValidInputsAt(step) ==
    CASE step = "" -> {"Book"}
      [] step = "name" -> {"Asha Rao"}
      [] step = "address" -> {"12 Kothrud"}
      [] step = "phone" -> {"98765 43210"}
      [] step = "delivery" -> {"1", "2"}
      [] step = "service" -> {"2", "4", "5", "6"}
      [] step = "shoe_quantity" -> {"2"}
      [] step = "home_textiles_type" -> {"2"}
      [] step = "iron_quantity" -> {"5", "2 kg"}
      [] step = "weight" -> {"2"}
      [] step = "pickup_type" -> {"1", "2"}
      [] step = "home_address" -> {"12 Baner Road"}
      [] step = "pickup_datetime" -> {"17 Feb 11am"}
      [] step = "delivery_datetime" -> {"17 Feb 6pm"}
      [] step = "instructions" -> {"no"}
      [] step = "payment" -> {"upi"}
      [] step = "awaiting_rating" -> {"5", "skip"}

\* A turn of a chat that has a session
ValidTurn ==
    \/ \E chat_id \in Chats, text \in ValidInputsAt("awaiting_rating"), fault \in FaultsAt("awaiting_rating") :
           AwaitingRating(chat_id, text, fault)
    \/ \E chat_id \in Chats, text \in ValidInputsAt("name"), fault \in FaultsAt("name") :
           StepName(chat_id, text, fault)
    \/ \E chat_id \in Chats, text \in ValidInputsAt("address"), fault \in FaultsAt("address") :
           StepAddress(chat_id, text, fault)
    \/ \E chat_id \in Chats, text \in ValidInputsAt("phone"), fault \in FaultsAt("phone") :
           StepPhone(chat_id, text, fault)
    \/ \E chat_id \in Chats, text \in ValidInputsAt("delivery"), fault \in FaultsAt("delivery") :
           StepDelivery(chat_id, text, fault)
    \/ \E chat_id \in Chats, text \in ValidInputsAt("service"), fault \in FaultsAt("service") :
           StepService(chat_id, text, fault)
    \/ \E chat_id \in Chats, text \in ValidInputsAt("shoe_quantity"), fault \in FaultsAt("shoe_quantity") :
           StepShoeQuantity(chat_id, text, fault)
    \/ \E chat_id \in Chats, text \in ValidInputsAt("home_textiles_type"), fault \in FaultsAt("home_textiles_type") :
           StepHomeTextilesType(chat_id, text, fault)
    \/ \E chat_id \in Chats, text \in ValidInputsAt("iron_quantity"), fault \in FaultsAt("iron_quantity") :
           StepIronQuantity(chat_id, text, fault)
    \/ \E chat_id \in Chats, text \in ValidInputsAt("weight"), fault \in FaultsAt("weight") :
           StepWeight(chat_id, text, fault)
    \/ \E chat_id \in Chats, text \in ValidInputsAt("pickup_type"), fault \in FaultsAt("pickup_type") :
           StepPickupType(chat_id, text, fault)
    \/ \E chat_id \in Chats, text \in ValidInputsAt("home_address"), fault \in FaultsAt("home_address") :
           StepHomeAddress(chat_id, text, fault)
    \/ \E chat_id \in Chats, text \in ValidInputsAt("pickup_datetime"), fault \in FaultsAt("pickup_datetime") :
           StepPickupDatetime(chat_id, text, fault)
    \/ \E chat_id \in Chats, text \in ValidInputsAt("delivery_datetime"), fault \in FaultsAt("delivery_datetime") :
           StepDeliveryDatetime(chat_id, text, fault)
    \/ \E chat_id \in Chats, text \in ValidInputsAt("instructions"), fault \in FaultsAt("instructions") :
           StepInstructions(chat_id, text, fault)
    \/ \E chat_id \in Chats, text \in ValidInputsAt("payment"), fault \in FaultsAt("payment") :
           StepPayment(chat_id, text, fault)

\* A message that starts a booking
ValidStart ==
    \E chat_id \in Chats, text \in ValidInputsAt(""), fault \in FaultsAt("") :
        Router(chat_id, text, fault)

ValidNext == ValidTurn \/ ValidStart

ValidInit ==
    /\ booking_state = [c \in {} |-> 0]
    /\ memory = [c \in Chats |-> 0]
    /\ services = FullCatalog
    /\ outlets = BothOutlets
    /\ pune_areas = AreaRows
    /\ customers = <<>>
    /\ orders = <<>>
    /\ order_items = <<>>
    /\ order_status_logs = <<>>
    /\ feedback = <<>>
    /\ last = [chat |-> "", raw |-> "", fault |-> "none", branch |-> "", step |-> "", reply |-> Reply("")]
    /\ shown = [c \in Chats |-> None]
    /\ inflight = <<>>

ValidSpec == ValidInit /\ [][ValidNext]_vars

\* The position of a step in the flow; the steps of the quantity sub-flows that
\* exclude each other share a position, and no session is the last position
StepRank(step) ==
    CASE step = "name" -> 1
      [] step = "address" -> 2
      [] step = "phone" -> 3
      [] step = "delivery" -> 4
      [] step = "service" -> 5
      [] step \in {"shoe_quantity", "home_textiles_type", "iron_quantity"} -> 6
      [] step = "weight" -> 7
      [] step = "pickup_type" -> 8
      [] step = "home_address" -> 9
      [] step = "pickup_datetime" -> 10
      [] step = "delivery_datetime" -> 11
      [] step = "instructions" -> 12
      [] step = "payment" -> 13
      [] step = "awaiting_rating" -> 14
      [] step = "" -> 15

\* The steps a session can be at; each is the guard of one turn of ValidTurn, which
\* has no other guard
FlowSteps ==
    {"name", "address", "phone", "delivery", "service", "shoe_quantity", "home_textiles_type",
     "iron_quantity", "weight", "pickup_type", "home_address", "pickup_datetime",
     "delivery_datetime", "instructions", "payment", "awaiting_rating"}

\* C40: no step traps a session: a turn leaves a session only at a step whose turn
\* can be taken, and with a valid input at every step each turn moves the session to
\* a later step of its path or removes it, so that the session takes at most one turn
\* per step; the payment turn leaves it waiting for the rating or removed, and the
\* rating turn removes it.
C40_NoStepTraps ==
    [][\A chat_id \in Chats :
          TurnOf(chat_id)
              => /\ HasSession(chat_id)' => SessionStep(booking_state', chat_id) \in FlowSteps
                 /\ HasSession(chat_id)
                        => /\ StepRank(SessionStep(booking_state', chat_id))
                                  > StepRank(SessionStep(booking_state, chat_id))
                           /\ AtStep(chat_id, "payment")
                                  => SessionStep(booking_state', chat_id) \in {"awaiting_rating", ""}
                           /\ AtStep(chat_id, "awaiting_rating") => ~HasSession(chat_id)']_vars

\* A home-textiles booking with home pickup, the longest path, has been made and
\* rated, and the session is removed
C40_Witness ==
    /\ last.branch = "rating"
    /\ ~HasSession(last.chat)
    /\ Len(feedback) > 0
    /\ \E i \in 1..Len(orders) : orders[i].pickup_type = "home_pickup"

====
